---------------------------- MODULE Spec2Model ----------------------------
(***************************************************************************)
(* A model of the storage and change-tracking core of flax:                *)
(*   - Changes (src/src/archetype/changes.rs): the per-component list of   *)
(*     (slice, tick, kind) records with set / remove / migrate_to /        *)
(*     swap_out;                                                           *)
(*   - Archetypes and ArchetypeIndex (src/src/archetypes.rs): the          *)
(*     archetype graph with find_create / prune_arch / despawn;            *)
(*   - ArchetypeChunks and Batch (src/src/query/iter.rs) with the filter   *)
(*     combinators of src/src/filter/set.rs: chunked iteration of one      *)
(*     archetype;                                                          *)
(*   - EntityRef and EntityRefMut (src/src/entity_ref.rs): borrow-guarded  *)
(*     access to the cells and the set / remove of component values;       *)
(*   - Archetypes::add_subscriber (src/src/archetypes.rs).                 *)
(* Slice is not part of the source sample; its operations are modelled     *)
(* from the specification (section 4.1).                                   *)
(***************************************************************************)
EXTENDS Integers, Sequences, FiniteSets, TLC

VARIABLES changes, other, last, archetypes, iter, cell, world, subscription, batched,
          entity_ref

chvars == <<changes, other, last>>
archvars == <<archetypes>>
itervars == <<iter>>
cellvars == <<cell>>
worldvars == <<world>>
subvars == <<subscription>>
batchvars == <<batched>>
refvars == <<entity_ref>>
vars == <<changes, other, last, archetypes, iter, cell, world, subscription, batched,
         entity_ref>>

(***************************************************************************)
(* Bounds of the change-set model.                                         *)
(***************************************************************************)
MaxSlot == 3
MaxTick == 2
MaxLen == 2

Slots == 0 .. (MaxSlot - 1)
Ticks == 1 .. MaxTick
ChangeKind == {"Modified", "Inserted", "Removed"}

(***************************************************************************)
(* Slice: the half-open range [start, end) over slots.                     *)
(***************************************************************************)
SliceNew(s, e) == [start |-> s, end |-> e]

single(slot) == SliceNew(slot, slot + 1)

is_empty(s) == s.start = s.end

contains(s, slot) == s.start <= slot /\ slot < s.end

Min(a, b) == IF a <= b THEN a ELSE b

Max(a, b) == IF a >= b THEN a ELSE b

\* Option<T>: None is the empty set, Some(x) the singleton {x}.
None == {}

Some(x) == {x}

Unwrap(o) == CHOOSE x \in o : TRUE

\* Slices touch or overlap: the union is one slice; otherwise None.
union(a, b) ==
    IF a.end >= b.start /\ b.end >= a.start
    THEN Some(SliceNew(Min(a.start, b.start), Max(a.end, b.end)))
    ELSE None

\* a \ b when that is a single slice; None when b lies strictly inside a.
difference(a, b) ==
    IF b.start <= a.start
    THEN Some(SliceNew(Min(Max(b.end, a.start), a.end), a.end))
    ELSE IF b.end >= a.end
    THEN Some(SliceNew(a.start, Max(Min(b.start, a.end), a.start)))
    ELSE IF is_empty(b) THEN Some(a)
    ELSE None

\* (left, inter, right) when b is contained in a; None otherwise.
split_with(a, b) ==
    IF b.start < a.start \/ b.end > a.end
    THEN None
    ELSE Some(<<SliceNew(a.start, b.start), b, SliceNew(b.end, a.end)>>)

\* The derived ordering of Slice: lexicographic on (start, end).
SliceLt(a, b) == a.start < b.start \/ (a.start = b.start /\ a.end < b.end)

SliceGt(a, b) == SliceLt(b, a)

(***************************************************************************)
(* Change                                                                  *)
(***************************************************************************)
ChangeNew(slice, tick, kind) == [slice |-> slice, tick |-> tick, kind |-> kind]

\* The slices of one kind, in list order (the filter/map of assert_ordered).
KindSlices(inner, kind) ==
    LET F[i \in 0 .. Len(inner)] ==
            IF i = 0 THEN <<>>
            ELSE IF inner[i].kind = kind THEN Append(F[i - 1], inner[i].slice)
            ELSE F[i - 1]
    IN F[Len(inner)]

is_sorted(a) == ~ \E i \in 1 .. (Len(a) - 1) : SliceGt(a[i], a[i + 1])

\* TRUE when the debug check passes (it panics otherwise).
assert_ordered(inner) == \A k \in ChangeKind : is_sorted(KindSlices(inner, k))

(***************************************************************************)
(* Changes::set: one retain_mut pass, then the insertion.                  *)
(***************************************************************************)
\* set_trim that also trims records of a newer tick
set_trim_any_tick(v, change) ==
    IF v.kind = change.kind /\ v.tick # change.tick
       /\ difference(v.slice, change.slice) # None
    THEN [v EXCEPT !.slice = Unwrap(difference(v.slice, change.slice))]
    ELSE v

\* The stale trim applied to one stored record.
set_trim(v, change) ==
    IF v.kind = change.kind /\ v.tick < change.tick
       /\ difference(v.slice, change.slice) # None
    THEN [v EXCEPT !.slice = Unwrap(difference(v.slice, change.slice))]
    ELSE v

\* set_merges with the comparison of the starts turned around
set_merges_flipped(v, change) ==
    /\ v.slice.start > change.slice.start
    /\ v.tick = change.tick
    /\ v.kind = change.kind
    /\ union(v.slice, change.slice) # None

\* Whether the (trimmed) record absorbs the change.
set_merges(v, change) ==
    /\ v.slice.start < change.slice.start
    /\ v.tick = change.tick
    /\ v.kind = change.kind
    /\ union(v.slice, change.slice) # None

\* set_merge that forgets to store the union
set_merge_noextend(v, change) == v

set_merge(v, change) ==
    IF set_merges(v, change)
    THEN [v EXCEPT !.slice = Unwrap(union(v.slice, change.slice))]
    ELSE v

\* set_step without the is_empty test of retain_mut
set_step_keep_empty(st, v0, change) ==
    LET v1 == set_trim(v0, change)
        j  == set_merges(v1, change)
        v  == set_merge(v1, change)
    IN  [out |-> Append(st.out, v),
         i |-> st.i + 1,
         insert_point |->
             IF v.kind = change.kind /\ SliceLt(v.slice, change.slice)
             THEN st.i + 1 ELSE st.insert_point,
         joined |-> st.joined \/ j]

\* The closure of retain_mut: st = [out, insert_point, i, joined].
set_step(st, v0, change) ==
    LET v1 == set_trim(v0, change)
        j  == set_merges(v1, change)
        v  == set_merge(v1, change)
    IN  IF is_empty(v.slice)
        THEN [st EXCEPT !.joined = st.joined \/ j]
        ELSE [out |-> Append(st.out, v),
              i |-> st.i + 1,
              insert_point |->
                  IF v.kind = change.kind /\ SliceLt(v.slice, change.slice)
                  THEN st.i + 1 ELSE st.insert_point,
              joined |-> st.joined \/ j]

set_retain(inner, change) ==
    LET F[k \in 0 .. Len(inner)] ==
            IF k = 0
            THEN [out |-> <<>>, i |-> 0, insert_point |-> 0, joined |-> FALSE]
            ELSE set_step(F[k - 1], inner[k], change)
    IN F[Len(inner)]

InsertAt(s, idx, x) == SubSeq(s, 1, idx) \o <<x>> \o SubSeq(s, idx + 1, Len(s))

set(inner, change) ==
    LET st == set_retain(inner, change)
    IN  IF st.joined THEN st.out ELSE InsertAt(st.out, st.insert_point, change)

(***************************************************************************)
(* Changes::remove: the drain/flat_map pass with the buffered right parts. *)
(***************************************************************************)
\* Flush the pending right parts when the first of them is smaller than s.
remove_flush(st, s) ==
    IF Len(st.right) > 0 /\ SliceLt(st.right[1].slice, s)
    THEN [st EXCEPT !.result = st.result \o st.right, !.right = <<>>]
    ELSE st

\* remove_step that forgets the part to the right of the removed slot
remove_step_dropright(st, v, slice) ==
    IF split_with(v.slice, slice) # None
    THEN LET sp == Unwrap(split_with(v.slice, slice))
             l  == sp[1]
             s1 == IF ~ is_empty(l)
                   THEN LET f == remove_flush(st, l)
                        IN [f EXCEPT !.result = Append(f.result, ChangeNew(l, v.tick, v.kind))]
                   ELSE st
         IN [s1 EXCEPT !.removed = Append(s1.removed, ChangeNew(slice, v.tick, v.kind))]
    ELSE LET f == remove_flush(st, v.slice)
         IN [f EXCEPT !.result = Append(f.result, v)]

\* st = [result, right, removed]
remove_step(st, v, slice) ==
    IF split_with(v.slice, slice) # None
    THEN LET sp == Unwrap(split_with(v.slice, slice))
             l  == sp[1]
             r  == sp[3]
             s1 == IF ~ is_empty(l)
                   THEN LET f == remove_flush(st, l)
                        IN [f EXCEPT !.result = Append(f.result, ChangeNew(l, v.tick, v.kind))]
                   ELSE st
             s2 == IF ~ is_empty(r)
                   THEN [s1 EXCEPT !.right = Append(s1.right, ChangeNew(r, v.tick, v.kind))]
                   ELSE s1
         IN [s2 EXCEPT !.removed = Append(s2.removed, ChangeNew(slice, v.tick, v.kind))]
    ELSE LET f == remove_flush(st, v.slice)
         IN [f EXCEPT !.result = Append(f.result, v)]

\* [inner |-> the rewritten list, removed |-> the returned Vec<Change>]
remove(inner, slot) ==
    LET slice == single(slot)
        F[k \in 0 .. Len(inner)] ==
            IF k = 0
            THEN [result |-> <<>>, right |-> <<>>, removed |-> <<>>]
            ELSE remove_step(F[k - 1], inner[k], slice)
        st == F[Len(inner)]
    IN [inner |-> st.result \o st.right, removed |-> st.removed]

\* set every change of cs, rewritten to single(slot), in order
set_all(inner, cs, slot) ==
    LET F[k \in 0 .. Len(cs)] ==
            IF k = 0 THEN inner
            ELSE set(F[k - 1], [cs[k] EXCEPT !.slice = single(slot)])
    IN F[Len(cs)]

\* [self |-> the source list, other |-> the destination list]
migrate_to(self, oth, src_slot, dst_slot) ==
    LET r == remove(self, src_slot)
    IN [self |-> r.inner, other |-> set_all(oth, r.removed, dst_slot)]

\* swap_out that sets the changes of dst back at dst
swap_out_at_dst(inner, src, dst) ==
    LET src_changes == remove(inner, src)
        dst_changes == remove(src_changes.inner, dst)
    IN [inner |-> set_all(dst_changes.inner, dst_changes.removed, dst),
        removed |-> src_changes.removed]

\* [inner |-> the list afterwards, removed |-> the returned src changes]
swap_out(inner, src, dst) ==
    LET src_changes == remove(inner, src)
        dst_changes == remove(src_changes.inner, dst)
    IN [inner |-> set_all(dst_changes.inner, dst_changes.removed, src),
        removed |-> src_changes.removed]

(***************************************************************************)
(* ComponentKey and ComponentDesc.  A key is (id, object); object "none"   *)
(* is a plain component, any other object makes it a relation instance.    *)
(* The components are a and the exclusive relation(id) of                  *)
(* tests/entity_builder.rs and a second relation that is not exclusive.    *)
(***************************************************************************)
ComponentKeyNew(id, object) == [id |-> id, object |-> object]

dummy == "dummy"

\* the keys of the model, in the canonical order (Ord of ComponentKey)
KeyOrder ==
    << ComponentKeyNew("a", "none"),
       ComponentKeyNew("relation", "id1"),
       ComponentKeyNew("relation", "id2"),
       ComponentKeyNew("link", "id1") >>

Keys == {KeyOrder[i] : i \in 1 .. Len(KeyOrder)}

Rank(k) == CHOOSE i \in 1 .. Len(KeyOrder) : KeyOrder[i] = k

is_relation(k) == k.object # "none"

\* meta_ref().has(exclusive()): relation(id) is declared => [ Exclusive ]
has_exclusive(k) == k.id = "relation"

\* the keys of a set in canonical order (the iteration order of a BTreeMap)
SortedKeys(ks) ==
    LET idx == {i \in 1 .. Len(KeyOrder) : KeyOrder[i] \in ks}
        F[n \in 0 .. Len(KeyOrder)] ==
            IF n = 0 THEN <<>>
            ELSE IF n \in idx THEN Append(F[n - 1], KeyOrder[n]) ELSE F[n - 1]
    IN F[Len(KeyOrder)]

\* the cell index of key k among the components ks
CellIndex(ks, k) == Cardinality({c \in ks : Rank(c) < Rank(k)})

(***************************************************************************)
(* Archetype: components (the key set; cells follow the canonical order),  *)
(* the edges, the number of entities and the attached handlers.            *)
(***************************************************************************)
EmptyMap == [x \in {} |-> x]

MapInsert(m, k, v) == [x \in DOMAIN m \cup {k} |-> IF x = k THEN v ELSE m[x]]

MapRemove(m, k) == [x \in DOMAIN m \ {k} |-> m[x]]

ArchetypeNew(ks) ==
    [components |-> ks, outgoing |-> EmptyMap, incoming |-> EmptyMap,
     entities |-> 0, handlers |-> <<>>]

add_child(arch, key, id) == [arch EXCEPT !.outgoing = MapInsert(arch.outgoing, key, id)]

add_incoming(arch, key, id) == [arch EXCEPT !.incoming = MapInsert(arch.incoming, key, id)]

remove_link(arch, key) == [arch EXCEPT !.outgoing = MapRemove(arch.outgoing, key)]

add_handler(arch, s) == [arch EXCEPT !.handlers = Append(arch.handlers, s)]

\* a subscriber is [name, key]: it matches the archetypes that hold key
matches_arch(s, arch) == s.key \in arch.components

(***************************************************************************)
(* ArchetypeIndex: components maps a key to the records of the archetypes  *)
(* holding it, a record being [cell_index, relation_count].                *)
(***************************************************************************)
ArchetypeRecord(cell_index, relation_count) ==
    [cell_index |-> cell_index, relation_count |-> relation_count]

\* register_relation that takes the cell of the latest relation
register_relation_lastcell(index, arch_id, key, cell_index) ==
    LET records == IF key \in DOMAIN index THEN index[key] ELSE EmptyMap
        record  == IF arch_id \in DOMAIN records THEN records[arch_id]
                   ELSE ArchetypeRecord(cell_index, 0)
    IN MapInsert(index, key,
           MapInsert(records, arch_id,
               ArchetypeRecord(cell_index, record.relation_count + 1)))

register_relation(index, arch_id, key, cell_index) ==
    LET records == IF key \in DOMAIN index THEN index[key] ELSE EmptyMap
        record  == IF arch_id \in DOMAIN records THEN records[arch_id]
                   ELSE ArchetypeRecord(cell_index, 0)
    IN MapInsert(index, key,
           MapInsert(records, arch_id,
               [record EXCEPT !.relation_count = record.relation_count + 1]))

\* None when an unwrap fails
unregister_relation(index, arch_id, key) ==
    IF key \notin DOMAIN index THEN None
    ELSE IF arch_id \notin DOMAIN index[key] THEN None
    ELSE LET record == index[key][arch_id]
         IN IF record.relation_count - 1 = 0
            THEN Some(MapInsert(index, key, MapRemove(index[key], arch_id)))
            ELSE Some(MapInsert(index, key,
                     MapInsert(index[key], arch_id,
                         [record EXCEPT !.relation_count = record.relation_count - 1])))

register_key(index, arch_id, ks, key) ==
    LET cell_index == CellIndex(ks, key)
        i1 == IF is_relation(key)
              THEN register_relation(
                       register_relation(index, arch_id,
                                         ComponentKeyNew(dummy, key.object), cell_index),
                       arch_id, ComponentKeyNew(key.id, dummy), cell_index)
              ELSE index
        records == IF key \in DOMAIN i1 THEN i1[key] ELSE EmptyMap
    IN MapInsert(i1, key, MapInsert(records, arch_id, ArchetypeRecord(cell_index, 0)))

register(index, arch_id, arch) ==
    LET keys == SortedKeys(arch.components)
        F[n \in 0 .. Len(keys)] ==
            IF n = 0 THEN index
            ELSE register_key(F[n - 1], arch_id, arch.components, keys[n])
    IN F[Len(keys)]

\* unregister_key that leaves the direct record of the archetype in place
unregister_key_keeps_direct(oindex, arch_id, key) ==
    IF oindex = None THEN None
    ELSE LET index == Unwrap(oindex)
         IN IF is_relation(key)
            THEN LET r == unregister_relation(index, arch_id,
                                              ComponentKeyNew(dummy, key.object))
                 IN IF r = None THEN None
                    ELSE unregister_relation(Unwrap(r), arch_id,
                                             ComponentKeyNew(key.id, dummy))
            ELSE Some(index)

\* Option: None when an unwrap fails
unregister_key(oindex, arch_id, key) ==
    IF oindex = None THEN None
    ELSE LET index == Unwrap(oindex)
             o1 == IF is_relation(key)
                   THEN LET r == unregister_relation(index, arch_id,
                                                     ComponentKeyNew(dummy, key.object))
                        IN IF r = None THEN None
                           ELSE unregister_relation(Unwrap(r), arch_id,
                                                    ComponentKeyNew(key.id, dummy))
                   ELSE Some(index)
         IN IF o1 = None THEN None
            ELSE LET i1 == Unwrap(o1)
                 IN IF key \notin DOMAIN i1 THEN None
                    ELSE LET records == MapRemove(i1[key], arch_id)
                         IN IF DOMAIN records = {}
                            THEN Some(MapRemove(i1, key))
                            ELSE Some(MapInsert(i1, key, records))

unregister(index, arch_id, arch) ==
    LET keys == SortedKeys(arch.components)
        F[n \in 0 .. Len(keys)] ==
            IF n = 0 THEN Some(index)
            ELSE unregister_key(F[n - 1], arch_id, keys[n])
    IN F[Len(keys)]

(***************************************************************************)
(* Archetypes: inner maps the ids of the live archetypes to them (ids are  *)
(* never reused: an EntityStore id carries a generation); next is the id   *)
(* the store hands out next.  A panic is the value Panic.                  *)
(***************************************************************************)
root == 1

reserved == 2

\* A u32 is kept as its two 16-bit halves [hi, lo], the value being
\* hi * 2^16 + lo.
U16 == 65536

U32(n) == [hi |-> (n \div U16) % U16, lo |-> n % U16]

U32Max == [hi |-> U16 - 1, lo |-> U16 - 1]

\* u32::wrapping_add: the sum modulo 2^32
wrapping_add(x, y) ==
    LET s == x.lo + y
    IN  [hi |-> (x.hi + (s \div U16)) % U16, lo |-> s % U16]

\* x < y on u32
U32Lt(x, y) == x.hi < y.hi \/ (x.hi = y.hi /\ x.lo < y.lo)

Panic == [panic |-> TRUE]

MaxArch == 5

ArchetypesNew ==
    [inner |-> (root :> ArchetypeNew({})) @@ (reserved :> ArchetypeNew({})),
     gen |-> U32(2),
     subscribers |-> <<>>,
     index |-> EmptyMap,
     next |-> 3,
     root |-> root,
     reserved |-> reserved]

\* child_components whose filter drops the new instance with the old ones
child_components_drophead(cur, head) ==
    LET arch_components == cur.components \cup {head}
    IN IF is_relation(head) /\ has_exclusive(head)
       THEN {v \in arch_components : v.id # head.id}
       ELSE arch_components

\* child_components without the exclusive-relation filter
child_components_nofilter(cur, head) == cur.components \cup {head}

\* the components of the child created from cur by head
child_components(cur, head) ==
    LET arch_components == cur.components \cup {head}
    IN IF is_relation(head) /\ has_exclusive(head)
       THEN {v \in arch_components : v.id # head.id \/ v = head}
       ELSE arch_components

\* find_create_step that does not record the incoming edge of the child
find_create_step_noincoming(st, head) ==
    IF st = Panic THEN Panic
    ELSE IF st.cursor \notin DOMAIN st.a.inner THEN Panic
    ELSE LET a   == st.a
             cur == a.inner[st.cursor]
         IN IF head \in DOMAIN cur.outgoing
            THEN [st EXCEPT !.cursor = cur.outgoing[head]]
            ELSE LET new == ArchetypeNew(child_components(cur, head))
                     new_id == a.next
                     inner == [x \in DOMAIN a.inner \cup {new_id} |->
                                 IF x = new_id THEN new
                                 ELSE IF x = st.cursor THEN add_child(cur, head, new_id)
                                 ELSE a.inner[x]]
                 IN [a |-> [a EXCEPT !.inner = inner,
                                     !.gen = wrapping_add(a.gen, 1),
                                     !.next = a.next + 1,
                                     !.index = register(a.index, new_id, new)],
                     cursor |-> new_id]

\* find_create_step that does not move along an edge it finds
find_create_step_stays(st, head) ==
    IF st = Panic THEN Panic
    ELSE IF st.cursor \notin DOMAIN st.a.inner THEN Panic
    ELSE LET a   == st.a
             cur == a.inner[st.cursor]
         IN IF head \in DOMAIN cur.outgoing
            THEN st
            ELSE LET new0 == ArchetypeNew(child_components(cur, head))
                     new_id == a.next
                     new == add_incoming(new0, head, st.cursor)
                     inner == [x \in DOMAIN a.inner \cup {new_id} |->
                                 IF x = new_id THEN new
                                 ELSE IF x = st.cursor THEN add_child(cur, head, new_id)
                                 ELSE a.inner[x]]
                 IN [a |-> [a EXCEPT !.inner = inner,
                                     !.gen = wrapping_add(a.gen, 1),
                                     !.next = a.next + 1,
                                     !.index = register(a.index, new_id, new)],
                     cursor |-> new_id]

\* find_create_step that increases gen also when it follows an existing edge
find_create_step_always_gen(st, head) ==
    IF st = Panic THEN Panic
    ELSE IF st.cursor \notin DOMAIN st.a.inner THEN Panic
    ELSE LET a   == st.a
             cur == a.inner[st.cursor]
         IN IF head \in DOMAIN cur.outgoing
            THEN [a |-> [a EXCEPT !.gen = wrapping_add(a.gen, 1)],
                  cursor |-> cur.outgoing[head]]
            ELSE LET new0 == ArchetypeNew(child_components(cur, head))
                     subs == SelectSeq(a.subscribers, LAMBDA s : matches_arch(s, new0))
                     new1 == [new0 EXCEPT !.handlers = subs]
                     new_id == a.next
                     new == add_incoming(new1, head, st.cursor)
                     inner == [x \in DOMAIN a.inner \cup {new_id} |->
                                 IF x = new_id THEN new
                                 ELSE IF x = st.cursor THEN add_child(cur, head, new_id)
                                 ELSE a.inner[x]]
                 IN [a |-> [a EXCEPT !.inner = inner,
                                     !.gen = wrapping_add(a.gen, 1),
                                     !.next = a.next + 1,
                                     !.index = register(a.index, new_id, new)],
                     cursor |-> new_id]

\* one turn of the loop of find_create: st = [a, cursor]
find_create_step(st, head) ==
    IF st = Panic THEN Panic
    ELSE IF st.cursor \notin DOMAIN st.a.inner THEN Panic
    ELSE LET a   == st.a
             cur == a.inner[st.cursor]
         IN IF head \in DOMAIN cur.outgoing
            THEN [st EXCEPT !.cursor = cur.outgoing[head]]
            ELSE LET new0 == ArchetypeNew(child_components(cur, head))
                     subs == SelectSeq(a.subscribers, LAMBDA s : matches_arch(s, new0))
                     new1 == [new0 EXCEPT !.handlers = subs]
                     new_id == a.next
                     new == add_incoming(new1, head, st.cursor)
                     inner == [x \in DOMAIN a.inner \cup {new_id} |->
                                 IF x = new_id THEN new
                                 ELSE IF x = st.cursor THEN add_child(cur, head, new_id)
                                 ELSE a.inner[x]]
                 IN [a |-> [a EXCEPT !.inner = inner,
                                     !.gen = wrapping_add(a.gen, 1),
                                     !.next = a.next + 1,
                                     !.index = register(a.index, new_id, new)],
                     cursor |-> new_id]

\* [a |-> the Archetypes afterwards, cursor |-> the id returned], or Panic
find_create(a, components) ==
    LET F[n \in 0 .. Len(components)] ==
            IF n = 0 THEN [a |-> a, cursor |-> a.root]
            ELSE find_create_step(F[n - 1], components[n])
        st == F[Len(components)]
    IN IF st = Panic THEN Panic
       ELSE IF st.cursor \notin DOMAIN st.a.inner THEN Panic
       ELSE st

\* World::set of a component the entity lacks: the entity, in archetype
\* src, moves to the archetype find_create returns for its keys plus key,
\* less the instances of an exclusive relation that key displaces
add_component(a, src, key) ==
    find_create(a, SortedKeys(child_components(a.inner[src], key)))

\* World::remove: the entity, in archetype src, moves to the archetype
\* find_create returns for its keys minus key
remove_component(a, src, key) ==
    find_create(a, SortedKeys(a.inner[src].components \ {key}))

\* add_component then remove_component of the same key, from archetype
\* src: [a, cursor] with the archetype the entity ends in, or Panic
add_then_remove(a, src, key) ==
    LET r1 == add_component(a, src, key)
    IN  IF r1 = Panic THEN Panic
        ELSE IF key \notin r1.a.inner[r1.cursor].components THEN Panic
        ELSE remove_component(r1.a, r1.cursor, key)

is_empty_arch(arch) == arch.entities = 0

\* unlink_parents leaving the links of the parents in place
unlink_parents_skip(a, arch) == a

\* remove the links the parents hold to a despawned archetype; Panic when a
\* parent does not resolve (get_mut)
unlink_parents(a, arch) ==
    LET keys == SortedKeys(DOMAIN arch.incoming)
        F[n \in 0 .. Len(keys)] ==
            IF n = 0 THEN a
            ELSE IF F[n - 1] = Panic THEN Panic
            ELSE IF arch.incoming[keys[n]] \notin DOMAIN F[n - 1].inner THEN Panic
            ELSE [F[n - 1] EXCEPT
                    !.inner[arch.incoming[keys[n]]] =
                        remove_link(F[n - 1].inner[arch.incoming[keys[n]]], keys[n])]
    IN F[Len(keys)]

\* Archetypes::despawn: the Archetypes afterwards, or Panic
despawn(a, id) ==
    IF id \notin DOMAIN a.inner THEN Panic
    ELSE LET arch == a.inner[id]
             a1 == [a EXCEPT !.inner = MapRemove(a.inner, id)]
             a2 == unlink_parents(a1, arch)
         IN IF a2 = Panic THEN Panic
            ELSE LET ix == unregister(a2.index, id, arch)
                 IN IF ix = None THEN Panic
                    ELSE [a2 EXCEPT !.gen = wrapping_add(a2.gen, 1), !.index = Unwrap(ix)]

RECURSIVE prune_arch(_, _)
\* prune_arch that does not look at the outgoing edges
prune_arch_ignoring_outgoing(a, arch_id) ==
    IF arch_id \notin DOMAIN a.inner THEN Panic
    ELSE LET arch == a.inner[arch_id]
         IN IF arch_id = a.root \/ arch_id = a.reserved
               \/ ~ is_empty_arch(arch)
            THEN [a |-> a, ret |-> FALSE]
            ELSE LET a1 == [a EXCEPT !.inner = MapRemove(a.inner, arch_id)]
                     ix == unregister(a1.index, arch_id, arch)
                 IN IF ix = None THEN Panic
                    ELSE LET a2 == [a1 EXCEPT !.index = Unwrap(ix)]
                             keys == SortedKeys(DOMAIN arch.incoming)
                             F[n \in 0 .. Len(keys)] ==
                                 IF n = 0 THEN a2
                                 ELSE IF F[n - 1] = Panic THEN Panic
                                 ELSE IF arch.incoming[keys[n]] \notin DOMAIN F[n - 1].inner
                                 THEN Panic
                                 ELSE LET dst_id == arch.incoming[keys[n]]
                                          a3 == [F[n - 1] EXCEPT !.inner[dst_id] =
                                                    remove_link(F[n - 1].inner[dst_id], keys[n])]
                                          r == prune_arch(a3, dst_id)
                                      IN IF r = Panic THEN Panic ELSE r.a
                             a4 == F[Len(keys)]
                         IN IF a4 = Panic THEN Panic
                            ELSE [a |-> [a4 EXCEPT !.gen = wrapping_add(a4.gen, 1)],
                                  ret |-> TRUE]

\* Archetypes::prune_arch: [a |-> the Archetypes afterwards, ret |-> the
\* value returned], or Panic.  An archetype has at most one incoming edge
\* (find_create adds one when it creates it), so the loop over incoming
\* makes at most one recursive call.
prune_arch(a, arch_id) ==
    IF arch_id \notin DOMAIN a.inner THEN Panic
    ELSE LET arch == a.inner[arch_id]
         IN IF arch_id = a.root \/ arch_id = a.reserved
               \/ ~ is_empty_arch(arch) \/ DOMAIN arch.outgoing # {}
            THEN [a |-> a, ret |-> FALSE]
            ELSE LET a1 == [a EXCEPT !.inner = MapRemove(a.inner, arch_id)]
                     ix == unregister(a1.index, arch_id, arch)
                 IN IF ix = None THEN Panic
                    ELSE LET a2 == [a1 EXCEPT !.index = Unwrap(ix)]
                             keys == SortedKeys(DOMAIN arch.incoming)
                             F[n \in 0 .. Len(keys)] ==
                                 IF n = 0 THEN a2
                                 ELSE IF F[n - 1] = Panic THEN Panic
                                 ELSE IF arch.incoming[keys[n]] \notin DOMAIN F[n - 1].inner
                                 THEN Panic
                                 ELSE LET dst_id == arch.incoming[keys[n]]
                                          a3 == [F[n - 1] EXCEPT !.inner[dst_id] =
                                                    remove_link(F[n - 1].inner[dst_id], keys[n])]
                                          r == prune_arch(a3, dst_id)
                                      IN IF r = Panic THEN Panic ELSE r.a
                             a4 == F[Len(keys)]
                         IN IF a4 = Panic THEN Panic
                            ELSE [a |-> [a4 EXCEPT !.gen = wrapping_add(a4.gen, 1)],
                                  ret |-> TRUE]

(***************************************************************************)
(* Query iteration over one archetype (src/src/query/iter.rs) with the     *)
(* filter combinators of src/src/filter/set.rs.                            *)
(* A prepared fetch is a tree: a leaf that matches the set m of slots, or  *)
(* And, Or, Not or Union over fetches.  The leaves (component fetches,     *)
(* change filters) and the PreparedFetch of Option and of Filtered are     *)
(* not part of the source sample; a leaf follows the slot-range contract   *)
(* of the specification (section 4.7): filter_slots returns the next       *)
(* contiguous matching sub-range of slots, or an empty slice.              *)
(***************************************************************************)
MaxRows == 4

Leaf(m) == [op |-> "leaf", m |-> m]

And(l, r) == [op |-> "and", l |-> l, r |-> r]

\* Or over a tuple of branches, each Some(prepared) or None (not prepared)
Or(bs) == [op |-> "or", bs |-> bs]

\* Not over Some(prepared) or None (the inner fetch could not be prepared)
Not(o) == [op |-> "not", f |-> o]

Union(t) == [op |-> "union", t |-> t]

SetMin(S) == CHOOSE x \in S : \A y \in S : x <= y

\* the least slice of a non-empty set in the derived order of Slice
SliceMin(S) == CHOOSE x \in S : \A y \in S : x = y \/ SliceLt(x, y)

\* the first maximal run of m inside slots; empty at slots.end when none
leaf_filter_slots(m, slots) ==
    LET hits == {s \in m : contains(slots, s)}
    IN IF hits = {}
       THEN SliceNew(slots.end, slots.end)
       ELSE LET start == SetMin(hits)
                end == SetMin({t \in (start + 1) .. slots.end :
                                  t = slots.end \/ t \notin m})
            IN SliceNew(start, end)

RECURSIVE filter_slots(_, _)

\* And::filter_slots asks the right side only about what the left returned
and_filter_slots(f, slots) ==
    LET l == filter_slots(f.l, slots)
    IN IF l = Panic THEN Panic ELSE filter_slots(f.r, l)

\* a branch that was not prepared matches nothing: empty at slots.end
option_filter_slots(o, slots) ==
    IF o = None
    THEN SliceNew(slots.end, slots.end)
    ELSE filter_slots(Unwrap(o), slots)

\* Or::filter_slots and Or::filter_union: the minimum of the results of all
\* branches, empty results included
or_filter_slots(f, slots) ==
    LET rs == {option_filter_slots(f.bs[i], slots) : i \in 1 .. Len(f.bs)}
    IN IF Panic \in rs THEN Panic ELSE SliceMin(rs)

\* Not::filter_slots: slots.difference(v).unwrap(), or slots when the inner
\* fetch was not prepared
not_filter_slots(f, slots) ==
    IF f.f # None
    THEN LET v == filter_slots(Unwrap(f.f), slots)
         IN IF v = Panic THEN Panic
            ELSE LET d == difference(slots, v)
                 IN IF d = None THEN Panic ELSE Unwrap(d)
    ELSE slots

\* Union::filter_slots is filter_union of the tuple
filter_union(f, slots) == or_filter_slots(f.t, slots)

filter_slots(f, slots) ==
    CASE f.op = "leaf" -> leaf_filter_slots(f.m, slots)
      [] f.op = "and" -> and_filter_slots(f, slots)
      [] f.op = "or" -> or_filter_slots(f, slots)
      [] f.op = "not" -> not_filter_slots(f, slots)
      [] f.op = "union" -> filter_union(f, slots)

\* Archetype::slots: [0, len)
arch_slots(arch) == SliceNew(0, arch.len)

ArchetypeChunksNew(arch, fetch) == [arch |-> arch, fetch |-> fetch, slots |-> arch_slots(arch)]

\* next_chunk keeping all but the first slot of the chunk among the slots left
next_chunk_keeps_tail(fetch, slots) ==
    IF is_empty(slots)
    THEN [slots |-> slots, ret |-> None]
    ELSE LET cur == filter_slots(fetch, slots)
         IN IF cur = Panic THEN Panic
            ELSE IF is_empty(cur)
            THEN [slots |-> slots, ret |-> None]
            ELSE LET sp == split_with(slots, cur)
                 IN IF sp = None
                    THEN Panic
                    ELSE [slots |-> SliceNew(Unwrap(sp)[2].start + 1, slots.end),
                          ret |-> Some(Unwrap(sp)[2])]

\* the slots left and the chunk returned; Panic when the filter panicked or
\* returned a slice that is not inside slots
next_chunk(fetch, slots) ==
    IF is_empty(slots)
    THEN [slots |-> slots, ret |-> None]
    ELSE LET cur == filter_slots(fetch, slots)
         IN IF cur = Panic THEN Panic
            ELSE IF is_empty(cur)
            THEN [slots |-> slots, ret |-> None]
            ELSE LET sp == split_with(slots, cur)
                 IN IF sp = None
                    THEN Panic
                    ELSE [slots |-> Unwrap(sp)[3], ret |-> Some(Unwrap(sp)[2])]

BatchNew(slice) == [pos |-> slice.start, end |-> slice.end]

\* the item fetched at a slot is represented by the slot
batch_next(b) ==
    IF b.pos = b.end
    THEN [batch |-> b, ret |-> None]
    ELSE [batch |-> [b EXCEPT !.pos = b.pos + 1],
          ret |-> Some([slot |-> b.pos, id |-> None])]

next_with_id(b, arch) ==
    IF b.pos = b.end
    THEN [batch |-> b, ret |-> None]
    ELSE [batch |-> [b EXCEPT !.pos = b.pos + 1],
          ret |-> Some([slot |-> b.pos, id |-> Some(arch.entities[b.pos + 1])])]

\* set_visited: the calls that reach the leaf fetches, in call order.  A leaf
\* is named by its path from the root of the fetch.
RECURSIVE set_visited(_, _, _)

\* Option<F>: a fetch that was not prepared has nothing to mark
option_set_visited(o, slots, path) ==
    IF o = None THEN <<>> ELSE set_visited(Unwrap(o), slots, path)

\* Or::set_visited that marks only the branches whose filter produced the chunk
or_set_visited_matching(f, slots, path) ==
    LET F[i \in 0 .. Len(f.bs)] ==
            IF i = 0 THEN <<>>
            ELSE IF option_filter_slots(f.bs[i], slots) = slots
            THEN F[i - 1] \o option_set_visited(f.bs[i], slots, Append(path, i))
            ELSE F[i - 1]
    IN F[Len(f.bs)]

\* Or::set_visited: every branch of the tuple, in order
or_set_visited(f, slots, path) ==
    LET F[i \in 0 .. Len(f.bs)] ==
            IF i = 0 THEN <<>>
            ELSE F[i - 1] \o option_set_visited(f.bs[i], slots, Append(path, i))
    IN F[Len(f.bs)]

set_visited(f, slots, path) ==
    CASE f.op = "leaf" -> <<[path |-> path, slots |-> slots]>>
      [] f.op = "and" -> set_visited(f.l, slots, Append(path, 1))
                             \o set_visited(f.r, slots, Append(path, 2))
      [] f.op = "or" -> or_set_visited(f, slots, path)
      [] f.op = "union" -> set_visited(f.t, slots, Append(path, 1))
      [] f.op = "not" -> <<>>

\* ArchetypeChunks::next: the chunk is marked visited and wrapped in a Batch
archetype_chunks_next(it) ==
    LET r == next_chunk(it.fetch, it.slots)
    IN IF r = Panic
       THEN [it EXCEPT !.done = TRUE, !.panic = TRUE, !.current = None]
       ELSE IF r.ret = None
       THEN [it EXCEPT !.done = TRUE, !.current = None]
       ELSE [it EXCEPT !.slots = r.slots,
                       !.visited = Append(it.visited, Unwrap(r.ret)),
                       !.marked = it.marked \o set_visited(it.fetch, Unwrap(r.ret), <<>>),
                       !.chunks = Append(it.chunks, Unwrap(r.ret)),
                       !.current = Some(BatchNew(Unwrap(r.ret)))]

\* no iteration in progress
NoIter ==
    [arch |-> [len |-> 0, entities |-> <<>>], fetch |-> Leaf({}),
     slots |-> SliceNew(0, 0), current |-> None, chunks |-> <<>>,
     visited |-> <<>>, marked |-> <<>>, items |-> <<>>, done |-> TRUE,
     panic |-> FALSE]

(***************************************************************************)
(* BatchedIter: the chunks of a list of prepared archetypes, one           *)
(* ArchetypeChunks after the other.                                        *)
(***************************************************************************)
MaxPrepared == 2

MaxBatchedRows == 3

BatchedIterNew(prepared) == [archetypes |-> prepared, current |-> None]

\* BatchedIter::next: the next chunk of the current archetype, or of the
\* first of the remaining archetypes that has one; None when the list is
\* exhausted, Panic when a filter panicked
RECURSIVE batched_iter_next(_)
batched_iter_next(bi) ==
    LET advance ==
            IF bi.archetypes = <<>>
            THEN [it |-> bi, ret |-> None]
            ELSE LET p == Head(bi.archetypes)
                 IN batched_iter_next(
                        [archetypes |-> Tail(bi.archetypes),
                         current |-> Some(ArchetypeChunksNew(p.arch, p.fetch))])
    IN  IF bi.current = None
        THEN advance
        ELSE LET chunk == Unwrap(bi.current)
                 r == next_chunk(chunk.fetch, chunk.slots)
             IN IF r = Panic THEN Panic
                ELSE IF r.ret # None
                THEN [it |-> [bi EXCEPT !.current = Some([chunk EXCEPT !.slots = r.slots])],
                      ret |-> Some(Unwrap(r.ret))]
                ELSE advance

\* no query in progress
NoBatched ==
    [started |-> FALSE, it |-> BatchedIterNew(<<>>), returned |-> <<>>, panic |-> FALSE]

(***************************************************************************)
(* Event subscribers (Archetypes::add_subscriber).  A subscriber is an     *)
(* Arc<dyn EventSubscriber>: matches_arch is a fixed predicate over the    *)
(* archetype, is_connected is state of the subscriber that its owner       *)
(* changes.  The implementations of the trait are not part of the source   *)
(* sample.                                                                 *)
(***************************************************************************)
Subscriber(name, key) == [name |-> name, key |-> key]

Subscribers ==
    {Subscriber("s1", ComponentKeyNew("a", "none")),
     Subscriber("s2", ComponentKeyNew("relation", "id1"))}

\* no subscriber has been connected or added
SubsNew == [connected |-> {}, added |-> {}]

is_connected(s, connected) == s.name \in connected

\* add_subscriber that keeps the disconnected subscribers in the list
add_subscriber_keeps_disconnected(a, subscriber, connected) ==
    [a EXCEPT !.inner = [id \in DOMAIN a.inner |->
                            IF matches_arch(subscriber, a.inner[id])
                            THEN add_handler(a.inner[id], subscriber)
                            ELSE a.inner[id]],
              !.subscribers = Append(a.subscribers, subscriber)]

\* Archetypes::add_subscriber: the disconnected subscribers leave the list,
\* the subscriber is attached to every archetype it matches and joins the
\* list
add_subscriber(a, subscriber, connected) ==
    LET kept == SelectSeq(a.subscribers, LAMBDA v : is_connected(v, connected))
    IN [a EXCEPT !.inner = [id \in DOMAIN a.inner |->
                               IF matches_arch(subscriber, a.inner[id])
                               THEN add_handler(a.inner[id], subscriber)
                               ELSE a.inner[id]],
                 !.subscribers = Append(kept, subscriber)]

(***************************************************************************)
(* Borrow guards (src/src/entity_ref.rs).  The cells of one archetype: a   *)
(* cell is shared by every entity of the archetype and is guarded by an    *)
(* atomic borrow state, any number of read borrows or one write borrow.    *)
(* The cell and its guard are not part of the source sample and are        *)
(* modelled from the specification (sections 3 and 5).                     *)
(***************************************************************************)
MaxBorrows == 3

CellKeys == {"name", "health", "pos"}

BorrowFree == [readers |-> 0, writer |-> FALSE]

\* an archetype without components, nothing borrowed, nothing displayed
CellNew == [has |-> {}, cells |-> [k \in CellKeys |-> BorrowFree], shown |-> ""]

Ok(v) == [ok |-> TRUE, v |-> v]

Err(e) == [ok |-> FALSE, e |-> e]

\* AtomicRefCell::try_borrow: fails while a write borrow is held
try_borrow(b) ==
    IF b.writer
    THEN [borrow |-> b, ret |-> Err("BorrowError")]
    ELSE [borrow |-> [b EXCEPT !.readers = b.readers + 1], ret |-> Ok("ref")]

\* AtomicRefCell::try_borrow_mut: fails while any borrow is held
try_borrow_mut(b) ==
    IF b.writer \/ b.readers > 0
    THEN [borrow |-> b, ret |-> Err("BorrowMutError")]
    ELSE [borrow |-> [b EXCEPT !.writer = TRUE], ret |-> Ok("refmut")]

\* EntityRef::try_get: Ok(None) when the archetype has no such cell
try_get(c, component) ==
    IF component \notin c.has
    THEN [cell |-> c, ret |-> Ok(None)]
    ELSE LET r == try_borrow(c.cells[component])
         IN [cell |-> [c EXCEPT !.cells[component] = r.borrow],
             ret |-> IF r.ret.ok THEN Ok(Some(r.ret.v)) ELSE r.ret]

\* EntityRef::try_get_mut
try_get_mut(c, component) ==
    IF component \notin c.has
    THEN [cell |-> c, ret |-> Ok(None)]
    ELSE LET r == try_borrow_mut(c.cells[component])
         IN [cell |-> [c EXCEPT !.cells[component] = r.borrow],
             ret |-> IF r.ret.ok THEN Ok(Some(r.ret.v)) ELSE r.ret]

\* dropping an AtomicRef / a RefMut releases the borrow
drop_ref(c, component) == [c EXCEPT !.cells[component].readers = @ - 1]

drop_ref_mut(c, component) == [c EXCEPT !.cells[component].writer = FALSE]

\* Display that takes a failed borrow of the name for a missing name only
fmt_name_if_present(c) ==
    IF "name" \in c.has
       THEN [cell |-> c, out |-> "name id"]
       ELSE [cell |-> c, out |-> "id"]

\* Display for EntityRef: try_get(name()).ok().flatten(); the borrow taken
\* for the name is released when the text is written
fmt(c) ==
    LET r == try_get(c, "name")
    IN IF r.ret.ok /\ r.ret.v # None
       THEN [cell |-> drop_ref(r.cell, "name"), out |-> "name id"]
       ELSE [cell |-> r.cell, out |-> "id"]

(***************************************************************************)
(* Entities and their component values (src/src/entity_ref.rs).  The World *)
(* and the rows of an Archetype are not part of the source sample; they    *)
(* are modelled from the specification (sections 4.4 and 6): an archetype  *)
(* is named by its component keys and holds a vector of rows, a row holds  *)
(* the entity id and one value per key, and the world maps each entity to  *)
(* its (archetype, slot) location.  A value is a handle, distinct for each *)
(* value handed to the world, so that its drops can be counted.            *)
(***************************************************************************)
MaxSpawned == 2
MaxValues == 3

Ents == 1 .. MaxSpawned

Handles == 1 .. MaxValues

\* World::new: no entity, no row, no value handed in yet
WorldNew ==
    [location |-> [id \in Ents |-> None],
     archs |-> [S \in SUBSET Keys |-> <<>>],
     spawned |-> 0,
     handed |-> 0,
     drops |-> [h \in Handles |-> 0]]

EntityLocation(arch, slot) == [arch |-> arch, slot |-> slot]

MissingComponent(id, component) ==
    [error |-> "MissingComponent", id |-> id, component |-> component]

is_alive(w, id) == w.location[id] # None

\* World::location
location(w, id) == Unwrap(w.location[id])

row_at(w, loc) == w.archs[loc.arch][loc.slot + 1]

\* the value is dropped
drop_value(drops, h) == [drops EXCEPT ![h] = drops[h] + 1]

drop_values(drops, hs) == [h \in Handles |-> IF h \in hs THEN drops[h] + 1 ELSE drops[h]]

\* World::spawn: a row without components in the root archetype
spawn(w, id) ==
    [w EXCEPT !.archs[{}] = Append(w.archs[{}], [id |-> id, vals |-> <<>>]),
              !.location[id] = Some(EntityLocation({}, Len(w.archs[{}]))),
              !.spawned = w.spawned + 1]

\* the last row moves into slot and the vector is truncated
swap_remove(rows, slot) ==
    [i \in 1 .. (Len(rows) - 1) |-> IF i = slot + 1 THEN rows[Len(rows)] ELSE rows[i]]

\* the row at loc leaves its archetype: swap_remove, and the location of the
\* entity that was swapped into the slot is updated
take_row(w, loc) ==
    LET rows == w.archs[loc.arch]
        swapped == rows[Len(rows)].id
    IN [w EXCEPT !.archs[loc.arch] = swap_remove(rows, loc.slot),
                 !.location[swapped] = Some(EntityLocation(loc.arch, loc.slot))]

\* move_to that destroys nothing
move_to_leaks(w, id, dst, taken) ==
    LET loc == location(w, id)
        row == row_at(w, loc)
        w1 == take_row(w, loc)
        shared == loc.arch \cap dst
    IN [w1 EXCEPT !.archs[dst] = Append(w1.archs[dst],
                                         [id |-> id, vals |-> [k \in shared |-> row.vals[k]]]),
                  !.location[id] = Some(EntityLocation(dst, Len(w1.archs[dst])))]

\* Archetype::move_to: the row of id moves to archetype dst keeping the
\* values of the shared components; the values of the components that dst
\* does not have, other than those in taken, are destroyed
move_to(w, id, dst, taken) ==
    LET loc == location(w, id)
        row == row_at(w, loc)
        w1 == take_row(w, loc)
        shared == loc.arch \cap dst
        destroyed == {row.vals[k] : k \in (loc.arch \ dst) \ taken}
    IN [w1 EXCEPT !.archs[dst] = Append(w1.archs[dst],
                                         [id |-> id, vals |-> [k \in shared |-> row.vals[k]]]),
                  !.location[id] = Some(EntityLocation(dst, Len(w1.archs[dst]))),
                  !.drops = drop_values(w.drops, destroyed)]

\* set_inner that replaces the value in the first row of the archetype
set_inner_firstrow(w, id, component, value) ==
    LET loc == location(w, id)
    IN IF component \in loc.arch
       THEN [world |-> [w EXCEPT !.archs[loc.arch][1].vals[component] = value],
             old |-> Some(row_at(w, loc).vals[component]),
             loc |-> loc]
       ELSE LET dst == child_components([components |-> loc.arch], component)
                w1 == move_to(w, id, dst, {})
                l1 == location(w1, id)
            IN [world |-> [w1 EXCEPT !.archs[l1.arch][l1.slot + 1].vals =
                                       [k \in dst |-> IF k = component THEN value
                                                      ELSE row_at(w1, l1).vals[k]]],
                old |-> None,
                loc |-> l1]

\* World::set_inner: the value replaced and the new location
set_inner(w, id, component, value) ==
    LET loc == location(w, id)
    IN IF component \in loc.arch
       THEN [world |-> [w EXCEPT !.archs[loc.arch][loc.slot + 1].vals[component] = value],
             old |-> Some(row_at(w, loc).vals[component]),
             loc |-> loc]
       ELSE LET dst == child_components([components |-> loc.arch], component)
                w1 == move_to(w, id, dst, {})
                l1 == location(w1, id)
            IN [world |-> [w1 EXCEPT !.archs[l1.arch][l1.slot + 1].vals =
                                       [k \in dst |-> IF k = component THEN value
                                                      ELSE row_at(w1, l1).vals[k]]],
                old |-> None,
                loc |-> l1]

\* World::remove_inner: the value is handed to on_drop instead of being
\* destroyed by the move
remove_inner(w, id, component) ==
    LET loc == location(w, id)
    IN IF component \notin loc.arch
       THEN [world |-> w, ret |-> Err(MissingComponent(id, component))]
       ELSE LET w1 == move_to(w, id, loc.arch \ {component}, {component})
            IN [world |-> w1,
                ret |-> Ok([value |-> row_at(w, loc).vals[component],
                            loc |-> location(w1, id)])]

\* World::despawn: the row is removed and its values are destroyed
world_despawn(w, id) ==
    LET loc == location(w, id)
        row == row_at(w, loc)
        w1 == take_row(w, loc)
    IN [w1 EXCEPT !.location[id] = None,
                  !.drops = drop_values(w.drops, {row.vals[k] : k \in loc.arch})]

\* EntityRefMut::has
has(w, id, component) == component \in location(w, id).arch

\* get whose error does not name the entity
get_unnamed(w, id, component) ==
    LET loc == location(w, id)
    IN IF component \in loc.arch
       THEN Ok(row_at(w, loc).vals[component])
       ELSE Err(MissingComponent(0, component))

\* EntityRefMut::get
get(w, id, component) ==
    LET loc == location(w, id)
    IN IF component \in loc.arch
       THEN Ok(row_at(w, loc).vals[component])
       ELSE Err(MissingComponent(id, component))

\* set that returns None whatever was replaced
entity_set_returns_none(w, id, component, value) ==
    LET r == set_inner(w, id, component, value)
    IN [world |-> r.world, loc |-> r.loc, ret |-> None]

\* EntityRefMut::set: set_inner(..).unwrap(), the new location is kept
entity_set(w, id, component, value) ==
    LET r == set_inner(w, id, component, value)
    IN [world |-> r.world, loc |-> r.loc, ret |-> r.old]

\* EntityRefMut::remove: the error of remove_inner is passed on, otherwise
\* the value read by on_drop is returned
entity_remove(w, id, component) ==
    LET r == remove_inner(w, id, component)
    IN IF r.ret.ok
       THEN [world |-> r.world, loc |-> r.ret.v.loc, ret |-> Ok(r.ret.v.value)]
       ELSE [world |-> r.world, loc |-> location(w, id), ret |-> r.ret]

(***************************************************************************)
(* EntityRefMut: id and loc, a OnceCell that holds the location once it    *)
(* has been looked up.  open says that the reference exists.               *)
(***************************************************************************)
NoRef == [open |-> FALSE, id |-> 0, loc |-> None]

\* World::entity_mut: the cell is empty or holds the location looked up
entity_mut(w, id, cached) ==
    [open |-> TRUE, id |-> id,
     loc |-> IF cached THEN Some(location(w, id)) ELSE None]

\* EntityRefMut::loc: loc.get_or_init(|| world.location(id).unwrap())
ref_loc(e, w) == IF e.loc = None THEN location(w, e.id) ELSE Unwrap(e.loc)

\* EntityRefMut::has: the archetype is the one of loc()
ref_has(e, w, component) == component \in ref_loc(e, w).arch

\* World::retain_entity_components: the row of id moves to the archetype of
\* the components that the predicate keeps; the new location is returned
retain_entity_components(w, id, keep) ==
    LET dst == location(w, id).arch \cap keep
    IN IF dst = location(w, id).arch THEN [world |-> w, loc |-> location(w, id)]
       ELSE LET w1 == move_to(w, id, dst, {})
            IN [world |-> w1, loc |-> location(w1, id)]

(***************************************************************************)
(* The change-set state machine.                                           *)
(*   changes : the list (inner) of the ChangeSet under test                *)
(*   other   : the list of the destination ChangeSet of migrate_to         *)
(*   last    : the last call made and its arguments                        *)
(* set is called with any non-empty slice and any tick: a ChangeSet gets   *)
(* changes of the current tick from writes and changes of older ticks from *)
(* migrate_to and swap_out.  On its source migrate_to acts as remove, on   *)
(* its destination as a sequence of set calls.                             *)
(***************************************************************************)
InputKinds == {"Modified"}

InputSlices == {sl \in {SliceNew(s, e) : s \in Slots, e \in 1 .. MaxSlot} : sl.start < sl.end}

InputChanges == {ChangeNew(sl, t, k) : sl \in InputSlices, t \in Ticks, k \in InputKinds}

NoChange == ChangeNew(SliceNew(0, 0), 0, "Modified")

\* n is the length of the list when the call was made
Last(op, change, src, dst, n) ==
    [op |-> op, change |-> change, src |-> src, dst |-> dst, n |-> n]

Init ==
    /\ changes = <<>>
    /\ other = <<>>
    /\ last = Last("new", NoChange, 0, 0, 0)
    /\ archetypes = ArchetypesNew
    /\ iter = NoIter
    /\ cell = CellNew
    /\ world = WorldNew
    /\ subscription = SubsNew
    /\ batched = NoBatched
    /\ entity_ref = NoRef

Set(c) ==
    LET new == set(changes, c)
    IN  /\ Len(new) <= MaxLen
        /\ changes' = new
        /\ last' = Last("set", c, 0, 0, Len(changes))
        /\ UNCHANGED <<other, archvars, itervars, cellvars, worldvars, subvars, batchvars, refvars>>

Remove(slot) ==
    LET r == remove(changes, slot)
    IN  /\ Len(r.inner) <= MaxLen
        /\ changes' = r.inner
        /\ last' = Last("remove", NoChange, slot, slot, Len(changes))
        /\ UNCHANGED <<other, archvars, itervars, cellvars, worldvars, subvars, batchvars, refvars>>

SwapOut(src, dst) ==
    LET r == swap_out(changes, src, dst)
    IN  /\ Len(remove(changes, src).inner) <= MaxLen
        /\ Len(remove(remove(changes, src).inner, dst).inner) <= MaxLen
        /\ Len(r.inner) <= MaxLen
        /\ changes' = r.inner
        /\ last' = Last("swap_out", NoChange, src, dst, Len(changes))
        /\ UNCHANGED <<other, archvars, itervars, cellvars, worldvars, subvars, batchvars, refvars>>

MigrateTo(src, dst) ==
    LET r == migrate_to(changes, other, src, dst)
    IN  /\ Len(r.self) <= MaxLen
        /\ Len(r.other) <= MaxLen
        /\ changes' = r.self
        /\ other' = r.other
        /\ last' = Last("migrate_to", NoChange, src, dst, Len(changes))
        /\ UNCHANGED <<archvars, itervars, cellvars, worldvars, subvars, batchvars, refvars>>

ChangesNext ==
    \/ \E c \in InputChanges : Set(c)
    \/ \E slot \in Slots : Remove(slot)
    \/ \E src, dst \in Slots : SwapOut(src, dst)

Spec == Init /\ [][ChangesNext]_vars

\* The same machine with changes of all three kinds.
AllChanges == {ChangeNew(sl, t, k) : sl \in InputSlices, t \in Ticks, k \in ChangeKind}

KindsNext ==
    \/ \E c \in AllChanges : Set(c)
    \/ \E slot \in Slots : Remove(slot)
    \/ \E src, dst \in Slots : SwapOut(src, dst)

SpecKinds == Init /\ [][KindsNext]_vars

MigrateNext ==
    \/ \E c \in InputChanges : Set(c)
    \/ \E src, dst \in Slots : MigrateTo(src, dst)

SpecMigrate == Init /\ [][MigrateNext]_vars

(***************************************************************************)
(* The archetype-graph state machine.                                      *)
(*   archetypes : the Archetypes struct, or Panic once a call has aborted  *)
(* find_create is called with lists in canonical order without duplicates  *)
(* (its caller contract); prune_arch with the id of any live archetype;    *)
(* despawn with the id of any live archetype but root and reserved.        *)
(* Push and Take add and remove an entity row of an archetype; the world   *)
(* holds at most MaxEntities entities.                                     *)
(***************************************************************************)
MaxEntities == 1

RECURSIVE SumEntities(_, _)
SumEntities(inner, ids) ==
    IF ids = {} THEN 0
    ELSE LET id == CHOOSE i \in ids : TRUE
         IN  inner[id].entities + SumEntities(inner, ids \ {id})

EntityCount == SumEntities(archetypes.inner, DOMAIN archetypes.inner)

ComponentLists == {SortedKeys(ks) : ks \in SUBSET Keys}

Live == IF archetypes = Panic THEN {} ELSE DOMAIN archetypes.inner

FindCreate(components) ==
    /\ archetypes # Panic
    /\ LET r == find_create(archetypes, components)
       IN  IF r = Panic
           THEN archetypes' = Panic
           ELSE /\ r.a.next <= MaxArch + 1
                /\ archetypes' = r.a
    /\ UNCHANGED <<chvars, itervars, cellvars, worldvars, subvars, batchvars, refvars>>

PruneArch(id) ==
    /\ archetypes # Panic
    /\ id \in Live
    /\ LET r == prune_arch(archetypes, id)
       IN  archetypes' = IF r = Panic THEN Panic ELSE r.a
    /\ UNCHANGED <<chvars, itervars, cellvars, worldvars, subvars, batchvars, refvars>>

Despawn(id) ==
    /\ archetypes # Panic
    /\ id \in Live \ {root, reserved}
    /\ archetypes' = despawn(archetypes, id)
    /\ UNCHANGED <<chvars, itervars, cellvars, worldvars, subvars, batchvars, refvars>>

Push(id) ==
    /\ archetypes # Panic
    /\ id \in Live
    /\ EntityCount < MaxEntities
    /\ archetypes' = [archetypes EXCEPT !.inner[id].entities = @ + 1]
    /\ UNCHANGED <<chvars, itervars, cellvars, worldvars, subvars, batchvars, refvars>>

Take(id) ==
    /\ archetypes # Panic
    /\ id \in Live
    /\ archetypes.inner[id].entities > 0
    /\ archetypes' = [archetypes EXCEPT !.inner[id].entities = @ - 1]
    /\ UNCHANGED <<chvars, itervars, cellvars, worldvars, subvars, batchvars, refvars>>

ArchIds == 1 .. MaxArch

ArchNext ==
    \/ \E components \in ComponentLists : FindCreate(components)
    \/ \E id \in ArchIds : PruneArch(id)
    \/ \E id \in ArchIds : Despawn(id)
    \/ \E id \in ArchIds : Push(id)
    \/ \E id \in ArchIds : Take(id)

SpecArch == Init /\ [][ArchNext]_vars

\* find_create and prune_arch only (with the rows that make archetypes
\* non-empty): the tree without the holes that despawn leaves
PruneNext ==
    \/ \E components \in ComponentLists : FindCreate(components)
    \/ \E id \in ArchIds : PruneArch(id)
    \/ \E id \in ArchIds : Push(id)
    \/ \E id \in ArchIds : Take(id)

SpecPrune == Init /\ [][PruneNext]_vars

\* The Archetypes after rounds of find_create and prune_arch that left only
\* root and reserved (the ids renamed): gen has been bumped twice a round,
\* so it may be about to wrap.
GenStarts == {U32(2), wrapping_add(U32Max, -1), U32Max}

InitGen ==
    /\ changes = <<>>
    /\ other = <<>>
    /\ last = Last("new", NoChange, 0, 0, 0)
    /\ \E g \in GenStarts : archetypes = [ArchetypesNew EXCEPT !.gen = g]
    /\ iter = NoIter
    /\ cell = CellNew
    /\ world = WorldNew
    /\ subscription = SubsNew
    /\ batched = NoBatched
    /\ entity_ref = NoRef

SpecGen == InitGen /\ [][ArchNext]_vars

(***************************************************************************)
(* The iteration state machine: one ArchetypeChunks over an archetype of   *)
(* len rows, drained batch by batch as the flattening QueryIter does.      *)
(*   iter.slots   : the slots which remain to iterate over                 *)
(*   iter.current : the Batch being drained                                *)
(*   iter.chunks  : the chunks yielded so far                              *)
(*   iter.visited : the slices passed to set_visited                       *)
(*   iter.marked  : the set_visited calls that reached the leaf fetches    *)
(*   iter.items   : the items yielded so far                               *)
(*   iter.done    : next_chunk has returned None                           *)
(***************************************************************************)
Rows(len) == 0 .. (len - 1)

\* entity ids of the rows: distinct, and not the slot numbers
EntitiesOf(len) == [i \in 1 .. len |-> 10 + len - i]

Leaves(len) == {Leaf(L) : L \in SUBSET Rows(len)}

\* a fetch that was prepared, or one that could not be
Options(F) == {Some(f) : f \in F} \cup {None}

Fetches(len) ==
    Leaves(len)
        \cup {And(l, r) : l \in Leaves(len), r \in Leaves(len)}
        \cup {Or(<<a, b>>) : a \in Options(Leaves(len)), b \in Options(Leaves(len))}
        \cup {Not(o) : o \in Options(Leaves(len))}
        \cup {Union(Or(<<Some(a), Some(b)>>)) : a \in Leaves(len), b \in Leaves(len)}

IterOver(len, fetch) ==
    LET arch == [len |-> len, entities |-> EntitiesOf(len)]
        chunks == ArchetypeChunksNew(arch, fetch)
    IN [arch |-> arch, fetch |-> fetch, slots |-> chunks.slots,
        current |-> None, chunks |-> <<>>, visited |-> <<>>, marked |-> <<>>,
        items |-> <<>>, done |-> FALSE, panic |-> FALSE]

InitIter ==
    /\ changes = <<>>
    /\ other = <<>>
    /\ last = Last("new", NoChange, 0, 0, 0)
    /\ archetypes = ArchetypesNew
    /\ cell = CellNew
    /\ world = WorldNew
    /\ subscription = SubsNew
    /\ batched = NoBatched
    /\ entity_ref = NoRef
    /\ \E len \in 0 .. MaxRows : \E fetch \in Fetches(len) :
          iter = IterOver(len, fetch)

Drained ==
    IF iter.current = None
    THEN TRUE
    ELSE Unwrap(iter.current).pos = Unwrap(iter.current).end

ChunksNext ==
    /\ ~iter.done
    /\ Drained
    /\ iter' = archetype_chunks_next(iter)
    /\ UNCHANGED <<chvars, archvars, cellvars, worldvars, subvars, batchvars, refvars>>

BatchNext ==
    /\ iter.current # None
    /\ LET r == batch_next(Unwrap(iter.current))
       IN /\ r.ret # None
          /\ iter' = [iter EXCEPT !.current = Some(r.batch),
                                  !.items = Append(iter.items, Unwrap(r.ret))]
    /\ UNCHANGED <<chvars, archvars, cellvars, worldvars, subvars, batchvars, refvars>>

BatchNextWithId ==
    /\ iter.current # None
    /\ LET r == next_with_id(Unwrap(iter.current), iter.arch)
       IN /\ r.ret # None
          /\ iter' = [iter EXCEPT !.current = Some(r.batch),
                                  !.items = Append(iter.items, Unwrap(r.ret))]
    /\ UNCHANGED <<chvars, archvars, cellvars, worldvars, subvars, batchvars, refvars>>

IterNext ==
    \/ ChunksNext
    \/ BatchNext
    \/ BatchNextWithId

SpecIter == InitIter /\ [][IterNext]_vars

\* combinators over combinators, on archetypes of fewer rows
MaxNestedRows == 3

NestedFetches(len) ==
    {Or(<<Some(And(l, r)), Some(b)>>) : l \in Leaves(len), r \in Leaves(len), b \in Leaves(len)}
        \cup {Or(<<Some(Not(Some(a))), Some(b)>>) : a \in Leaves(len), b \in Leaves(len)}
        \cup {Not(Some(And(l, r))) : l \in Leaves(len), r \in Leaves(len)}
        \cup {Not(Some(Or(<<Some(a), Some(b)>>))) : a \in Leaves(len), b \in Leaves(len)}
        \cup {And(Not(Some(a)), b) : a \in Leaves(len), b \in Leaves(len)}
        \cup {And(Or(<<Some(a), Some(b)>>), c) : a \in Leaves(len), b \in Leaves(len), c \in Leaves(len)}
        \cup {Union(Or(<<Some(And(l, r)), Some(b)>>)) : l \in Leaves(len), r \in Leaves(len), b \in Leaves(len)}

InitNested ==
    /\ changes = <<>>
    /\ other = <<>>
    /\ last = Last("new", NoChange, 0, 0, 0)
    /\ archetypes = ArchetypesNew
    /\ cell = CellNew
    /\ world = WorldNew
    /\ subscription = SubsNew
    /\ batched = NoBatched
    /\ entity_ref = NoRef
    /\ \E len \in 0 .. MaxNestedRows : \E fetch \in NestedFetches(len) :
          iter = IterOver(len, fetch)

SpecNested == InitNested /\ [][IterNext]_vars

(***************************************************************************)
(* The borrow state machine: references to the cells of one archetype are  *)
(* taken with try_get / try_get_mut, dropped, and the entity is displayed, *)
(* in any interleaving.                                                    *)
(*   cell.has   : the components of the archetype                          *)
(*   cell.cells : the borrow state of each cell                            *)
(*   cell.shown : the text written by the last Display                     *)
(***************************************************************************)
InitBorrow ==
    /\ changes = <<>>
    /\ other = <<>>
    /\ last = Last("new", NoChange, 0, 0, 0)
    /\ archetypes = ArchetypesNew
    /\ iter = NoIter
    /\ world = WorldNew
    /\ subscription = SubsNew
    /\ batched = NoBatched
    /\ entity_ref = NoRef
    /\ \E comps \in SUBSET CellKeys : cell = [CellNew EXCEPT !.has = comps]

TryGet(component) ==
    /\ cell.cells[component].readers < MaxBorrows
    /\ cell' = try_get(cell, component).cell
    /\ UNCHANGED <<chvars, archvars, itervars, worldvars, subvars, batchvars, refvars>>

TryGetMut(component) ==
    /\ cell' = try_get_mut(cell, component).cell
    /\ UNCHANGED <<chvars, archvars, itervars, worldvars, subvars, batchvars, refvars>>

DropRef(component) ==
    /\ cell.cells[component].readers > 0
    /\ cell' = drop_ref(cell, component)
    /\ UNCHANGED <<chvars, archvars, itervars, worldvars, subvars, batchvars, refvars>>

DropRefMut(component) ==
    /\ cell.cells[component].writer
    /\ cell' = drop_ref_mut(cell, component)
    /\ UNCHANGED <<chvars, archvars, itervars, worldvars, subvars, batchvars, refvars>>

Display ==
    /\ cell.cells["name"].readers < MaxBorrows
    /\ LET r == fmt(cell)
       IN cell' = [r.cell EXCEPT !.shown = r.out]
    /\ UNCHANGED <<chvars, archvars, itervars, worldvars, subvars, batchvars, refvars>>

BorrowNext ==
    \/ \E component \in CellKeys : TryGet(component)
    \/ \E component \in CellKeys : TryGetMut(component)
    \/ \E component \in CellKeys : DropRef(component)
    \/ \E component \in CellKeys : DropRefMut(component)
    \/ Display

SpecBorrow == InitBorrow /\ [][BorrowNext]_vars

(***************************************************************************)
(* The world state machine: entities are spawned, components are set and   *)
(* removed through an EntityRefMut, entities are despawned.  The value a   *)
(* call returns is dropped by the caller.                                  *)
(*   world.location : the location of each live entity                     *)
(*   world.archs    : the rows of each archetype                           *)
(*   world.spawned  : the number of entities spawned so far                *)
(*   world.handed   : the number of values handed to the world so far      *)
(*   world.drops    : how many times each value has been dropped           *)
(***************************************************************************)
Spawn ==
    /\ world.spawned < MaxSpawned
    /\ world' = spawn(world, world.spawned + 1)
    /\ UNCHANGED <<chvars, archvars, itervars, cellvars, subvars, batchvars, refvars>>

EntitySet(id, component) ==
    /\ is_alive(world, id)
    /\ world.handed < MaxValues
    /\ LET r == entity_set(world, id, component, world.handed + 1)
       IN world' = [r.world EXCEPT
                       !.handed = world.handed + 1,
                       !.drops = IF r.ret = None THEN r.world.drops
                                 ELSE drop_value(r.world.drops, Unwrap(r.ret))]
    /\ UNCHANGED <<chvars, archvars, itervars, cellvars, subvars, batchvars, refvars>>

EntityRemove(id, component) ==
    /\ is_alive(world, id)
    /\ LET r == entity_remove(world, id, component)
       IN world' = IF r.ret.ok
                   THEN [r.world EXCEPT !.drops = drop_value(r.world.drops, r.ret.v)]
                   ELSE r.world
    /\ UNCHANGED <<chvars, archvars, itervars, cellvars, subvars, batchvars, refvars>>

WorldDespawn(id) ==
    /\ is_alive(world, id)
    /\ world' = world_despawn(world, id)
    /\ UNCHANGED <<chvars, archvars, itervars, cellvars, subvars, batchvars, refvars>>

WorldNext ==
    \/ Spawn
    \/ \E id \in Ents : \E component \in Keys : EntitySet(id, component)
    \/ \E id \in Ents : \E component \in Keys : EntityRemove(id, component)
    \/ \E id \in Ents : WorldDespawn(id)

SpecWorld == Init /\ [][WorldNext]_vars

(***************************************************************************)
(* The EntityRefMut state machine: a reference to a live entity is taken   *)
(* with entity_mut, used and dropped.  While it exists the world is        *)
(* reached through it: get, has, set, remove, retain, entry_ref, and the   *)
(* calls of World made on the reference world_mut() returns, which are the *)
(* actions of the world state machine.                                     *)
(*   entity_ref : the reference, its id and its cell loc                   *)
(***************************************************************************)
RefUsable == entity_ref.open /\ is_alive(world, entity_ref.id)

\* the world after World::set and the drop of the value it returns
set_and_drop(w, id, component) ==
    LET r == entity_set(w, id, component, w.handed + 1)
    IN [r.world EXCEPT !.handed = w.handed + 1,
                       !.drops = IF r.ret = None THEN r.world.drops
                                 ELSE drop_value(r.world.drops, Unwrap(r.ret))]

EntityMut(id, cached) ==
    /\ ~ entity_ref.open
    /\ is_alive(world, id)
    /\ entity_ref' = entity_mut(world, id, cached)
    /\ UNCHANGED <<chvars, archvars, itervars, cellvars, worldvars, subvars, batchvars>>

\* get, get_mut, try_get, has: loc() fills the cell
RefGet ==
    /\ RefUsable
    /\ entity_ref' = [entity_ref EXCEPT !.loc = Some(ref_loc(entity_ref, world))]
    /\ UNCHANGED <<chvars, archvars, itervars, cellvars, worldvars, subvars, batchvars>>

RefSet(component) ==
    /\ RefUsable
    /\ world.handed < MaxValues
    /\ world' = set_and_drop(world, entity_ref.id, component)
    /\ entity_ref' = [entity_ref EXCEPT !.loc =
           Some(entity_set(world, entity_ref.id, component, world.handed + 1).loc)]
    /\ UNCHANGED <<chvars, archvars, itervars, cellvars, subvars, batchvars>>

\* an error of remove_inner returns before loc is assigned
RefRemove(component) ==
    /\ RefUsable
    /\ LET r == entity_remove(world, entity_ref.id, component)
       IN  /\ world' = IF r.ret.ok
                       THEN [r.world EXCEPT !.drops = drop_value(r.world.drops, r.ret.v)]
                       ELSE r.world
           /\ entity_ref' = IF r.ret.ok THEN [entity_ref EXCEPT !.loc = Some(r.loc)]
                            ELSE entity_ref
    /\ UNCHANGED <<chvars, archvars, itervars, cellvars, subvars, batchvars>>

RefRetain(keep) ==
    /\ RefUsable
    /\ LET r == retain_entity_components(world, entity_ref.id, keep)
       IN  /\ world' = r.world
           /\ entity_ref' = [entity_ref EXCEPT !.loc = Some(r.loc)]
    /\ UNCHANGED <<chvars, archvars, itervars, cellvars, subvars, batchvars>>

\* entry_ref: an occupied entry is dropped; a vacant entry empties the cell
\* and is dropped or inserts a value with World::set
RefEntryRef(component, insert) ==
    /\ RefUsable
    /\ IF ref_has(entity_ref, world, component)
       THEN /\ ~ insert
            /\ entity_ref' = [entity_ref EXCEPT !.loc = Some(ref_loc(entity_ref, world))]
            /\ world' = world
       ELSE /\ entity_ref' = [entity_ref EXCEPT !.loc = None]
            /\ IF insert
               THEN /\ world.handed < MaxValues
                    /\ world' = set_and_drop(world, entity_ref.id, component)
               ELSE world' = world
    /\ UNCHANGED <<chvars, archvars, itervars, cellvars, subvars, batchvars>>

EntityRefDrop ==
    /\ entity_ref.open
    /\ entity_ref' = NoRef
    /\ UNCHANGED <<chvars, archvars, itervars, cellvars, worldvars, subvars, batchvars>>

RefNext ==
    \/ \E id \in Ents : \E cached \in BOOLEAN : EntityMut(id, cached)
    \/ RefGet
    \/ \E component \in Keys : RefSet(component)
    \/ \E component \in Keys : RefRemove(component)
    \/ \E keep \in SUBSET Keys : RefRetain(keep)
    \/ \E component \in Keys : \E insert \in BOOLEAN : RefEntryRef(component, insert)
    \/ EntityRefDrop
    \/ WorldNext

SpecRef == Init /\ [][RefNext]_vars

(***************************************************************************)
(* The subscriber state machine: subscribers are created connected, added  *)
(* to the Archetypes once, and disconnected by their owners, while         *)
(* find_create and prune_arch change the graph.                            *)
(*   subscription.connected : subscribers that report is_connected() = true *)
(*   subscription.added     : subscribers passed to add_subscriber so far   *)
(***************************************************************************)
AddSubscriber(s) ==
    /\ archetypes # Panic
    /\ s.name \notin subscription.added
    /\ archetypes' = add_subscriber(archetypes, s, subscription.connected \cup {s.name})
    /\ subscription' = [connected |-> subscription.connected \cup {s.name},
                added |-> subscription.added \cup {s.name}]
    /\ UNCHANGED <<chvars, itervars, cellvars, worldvars, batchvars, refvars>>

Disconnect(s) ==
    /\ s.name \in subscription.connected
    /\ subscription' = [subscription EXCEPT !.connected = subscription.connected \ {s.name}]
    /\ UNCHANGED <<chvars, archvars, itervars, cellvars, worldvars, batchvars, refvars>>

SubNext ==
    \/ \E components \in ComponentLists : FindCreate(components)
    \/ \E id \in ArchIds : PruneArch(id)
    \/ \E s \in Subscribers : AddSubscriber(s)
    \/ \E s \in Subscribers : Disconnect(s)

SpecSub == Init /\ [][SubNext]_vars

(***************************************************************************)
(* The query state machine: a BatchedIter over a finite list of prepared   *)
(* archetypes, asked for its next batch until it returns None.             *)
(*   batched.started  : the BatchedIter was constructed                    *)
(*   batched.it       : the BatchedIter (archetypes left, current chunks)  *)
(*   batched.returned : what the calls of next returned, in order          *)
(*   batched.panic    : a call of next panicked                            *)
(***************************************************************************)
PreparedArchetype(len, fetch) ==
    [arch |-> [len |-> len, entities |-> EntitiesOf(len)], fetch |-> fetch]

BatchedFetches(len) ==
    Leaves(len)
        \cup {Not(o) : o \in Options(Leaves(len))}
        \cup {And(l, r) : l \in Leaves(len), r \in Leaves(len)}

Prepared ==
    UNION {{PreparedArchetype(len, fetch) : fetch \in BatchedFetches(len)} :
              len \in 0 .. MaxBatchedRows}

\* BatchedIter::new over the archetypes the query prepared
BatchedNew(prepared) ==
    /\ ~ batched.started
    /\ batched' = [started |-> TRUE, it |-> BatchedIterNew(prepared),
                   returned |-> <<>>, panic |-> FALSE]
    /\ UNCHANGED <<chvars, archvars, itervars, cellvars, worldvars, subvars, refvars>>

\* the caller asks again until next has returned None
BatchedNext ==
    /\ batched.started
    /\ ~ batched.panic
    /\ IF batched.returned = <<>> THEN TRUE
       ELSE batched.returned[Len(batched.returned)] # None
    /\ \E r \in {batched_iter_next(batched.it)} :
           batched' = IF r = Panic
                      THEN [batched EXCEPT !.panic = TRUE]
                      ELSE [batched EXCEPT !.it = r.it,
                                           !.returned = Append(batched.returned, r.ret)]
    /\ UNCHANGED <<chvars, archvars, itervars, cellvars, worldvars, subvars, refvars>>

BatchedIterNext ==
    \/ /\ ~ batched.started
       /\ \E n \in 0 .. MaxPrepared : \E prepared \in [1 .. n -> Prepared] :
              BatchedNew(prepared)
    \/ BatchedNext

SpecBatched == Init /\ [][BatchedIterNext]_vars

(***************************************************************************)
(* Helpers of the properties.                                              *)
(***************************************************************************)
Overlap(a, b) == a.start < b.end /\ b.start < a.end

Touch(a, b) == a.end >= b.start /\ b.end >= a.start

\* the number of records of (tick, kind) whose slice contains slot
CoverCount(inner, slot, tick, kind) ==
    Cardinality({i \in 1 .. Len(inner) :
        inner[i].tick = tick /\ inner[i].kind = kind /\ contains(inner[i].slice, slot)})

Covers(inner, slot, tick, kind) == CoverCount(inner, slot, tick, kind) > 0

\* the records containing slot, in list order, each cut down to single(slot)
Covering(inner, slot) ==
    LET sel == SelectSeq(inner, LAMBDA v : contains(v.slice, slot))
    IN [i \in 1 .. Len(sel) |-> ChangeNew(single(slot), sel[i].tick, sel[i].kind)]

\* the greatest tick with which kind covers slot (0 when it does not)
MaxTickAt(inner, slot, kind) ==
    LET ts == {inner[i].tick : i \in {j \in 1 .. Len(inner) :
                   inner[j].kind = kind /\ contains(inner[j].slice, slot)}}
    IN IF ts = {} THEN 0 ELSE CHOOSE t \in ts : \A u \in ts : u <= t

(***************************************************************************)
(* C1. After any sequence of set, remove, migrate_to and swap_out, for     *)
(* each kind the stored slices, in list order, are strictly ascending by   *)
(* start.  The code does not keep this: setting the same change twice at   *)
(* one tick stores it twice.                                               *)
(***************************************************************************)
StrictlyAscendingByStart ==
    \A k \in ChangeKind :
        LET ks == KindSlices(changes, k)
        IN \A i \in 1 .. (Len(ks) - 1) : ks[i].start < ks[i + 1].start

(***************************************************************************)
(* C2. Any two stored records of the same kind have disjoint slices.  The  *)
(* code does not keep this: a newer change strictly inside an older record *)
(* leaves the older record whole (difference is None).                     *)
(***************************************************************************)
PairwiseDisjoint ==
    \A i, j \in 1 .. Len(changes) :
        (i < j /\ changes[i].kind = changes[j].kind)
            => ~ Overlap(changes[i].slice, changes[j].slice)

MergesWith(v, c) ==
    /\ v.kind = c.kind
    /\ v.tick = c.tick
    /\ v.slice.start < c.slice.start
    /\ v.slice.end >= c.slice.start

SetCovers ==
    last.op = "set" =>
        \A s \in Slots :
            contains(last.change.slice, s)
                => Covers(changes, s, last.change.tick, last.change.kind)

\* set(c) was absorbed by a record that now reaches past both ends of c
SetCoveredByLarger ==
    /\ last.op = "set"
    /\ \E i \in 1 .. Len(changes) :
           /\ changes[i].tick = last.change.tick
           /\ changes[i].kind = last.change.kind
           /\ changes[i].slice.start < last.change.slice.start
           /\ changes[i].slice.end >= last.change.slice.end
    /\ \A i \in 1 .. Len(changes) : changes[i].slice # last.change.slice

(***************************************************************************)
(* C6. remove(slot) returns one change per stored record containing slot,  *)
(* each single(slot) with that record's tick and kind; afterwards no       *)
(* record contains slot and every other slot is covered by the same        *)
(* (tick, kind) records as before.                                         *)
(***************************************************************************)
RemoveReturnsAndPreserves ==
    [][last'.op = "remove" =>
        LET slot == last'.src
        IN  /\ remove(changes, slot).removed = Covering(changes, slot)
            /\ \A i \in 1 .. Len(changes') : ~ contains(changes'[i].slice, slot)
            /\ \A s \in Slots \ {slot} : \A t \in Ticks : \A k \in ChangeKind :
                   CoverCount(changes', s, t, k) = CoverCount(changes, s, t, k)]_vars

\* remove(slot) split a record in two
RemoveSplit ==
    /\ last.op = "remove"
    /\ Len(changes) = last.n + 1
    /\ \E i, j \in 1 .. Len(changes) :
           /\ changes[i].slice.end = last.src
           /\ changes[j].slice.start = last.src + 1

(***************************************************************************)
(* C7. After migrate_to(other, src_slot, dst_slot) no source record        *)
(* contains src_slot, other holds a record of each (tick, kind) that       *)
(* covered src_slot, covering dst_slot, and the source's coverage of the   *)
(* other slots is unchanged.                                               *)
(***************************************************************************)
MigrateMovesEveryRecord ==
    [][last'.op = "migrate_to" =>
        LET src == last'.src
            dst == last'.dst
        IN  /\ \A i \in 1 .. Len(changes') : ~ contains(changes'[i].slice, src)
            /\ \A t \in Ticks : \A k \in ChangeKind :
                   Covers(changes, src, t, k) => Covers(other', dst, t, k)
            /\ \A s \in Slots \ {src} : \A t \in Ticks : \A k \in ChangeKind :
                   CoverCount(changes', s, t, k) = CoverCount(changes, s, t, k)]_vars

(***************************************************************************)
(* C8. As claimed: swap_out(src, dst) returns the changes that covered     *)
(* src; afterwards no record covers dst and every (tick, kind) that        *)
(* covered dst covers src.                                                 *)
(***************************************************************************)
SwapOutMovesEveryRecord ==
    [][last'.op = "swap_out" =>
        LET src == last'.src
            dst == last'.dst
        IN  /\ swap_out(changes, src, dst).removed = Covering(changes, src)
            /\ \A i \in 1 .. Len(changes') : ~ contains(changes'[i].slice, dst)
            /\ \A t \in Ticks : \A k \in ChangeKind :
                   Covers(changes, dst, t, k) => Covers(changes', src, t, k)]_vars

(***************************************************************************)
(* C8, amended. swap_out(src, dst) returns the changes that covered src    *)
(* (one per record, as single(src)); afterwards no record covers dst;      *)
(* when src # dst, for every kind that covered dst a record of that kind   *)
(* with the greatest tick it had on dst covers src, and no (tick, kind)    *)
(* covers src that did not cover dst; when src = dst nothing covers src.   *)
(***************************************************************************)
SwapOutMovesNewest ==
    [][last'.op = "swap_out" =>
        LET src == last'.src
            dst == last'.dst
        IN  /\ swap_out(changes, src, dst).removed = Covering(changes, src)
            /\ \A i \in 1 .. Len(changes') : ~ contains(changes'[i].slice, dst)
            /\ src # dst => \A k \in ChangeKind :
                   /\ MaxTickAt(changes, dst, k) > 0
                        => Covers(changes', src, MaxTickAt(changes, dst, k), k)
                   /\ \A t \in Ticks :
                        Covers(changes', src, t, k) => Covers(changes, dst, t, k)
            /\ src = dst => \A i \in 1 .. Len(changes') : ~ contains(changes'[i].slice, src)]_vars

\* swap_out moved a change from dst to src over a slot that held another
SwapOutMoved ==
    /\ last.op = "swap_out"
    /\ last.src # last.dst
    /\ last.n = 2
    /\ Len(changes) = 1
    /\ changes[1].slice = single(last.src)


(***************************************************************************)
(* Helpers of the archetype-graph properties.                              *)
(***************************************************************************)
Range(list) == {list[i] : i \in 1 .. Len(list)}

\* the exclusive-relation keys of list that a later key of list replaces
Superseded(list) ==
    {list[i] : i \in {n \in 1 .. Len(list) :
                        /\ is_relation(list[n])
                        /\ has_exclusive(list[n])
                        /\ \E m \in (n + 1) .. Len(list) : list[m].id = list[n].id}}

ExclusiveOk(ks) ==
    \A k1 \in ks : \A k2 \in ks :
        (is_relation(k1) /\ has_exclusive(k1) /\ k1.id = k2.id) => k1 = k2

\* lists that hold at most one instance of each exclusive relation
NiceLists == {list \in ComponentLists : Superseded(list) = {}}

\* C9: no archetype holds two keys of one exclusive relation id with
\* different objects, and find_create of a list that adds the exclusive
\* R(Y) after R(X) returns an archetype with R(Y), without R(X), and with
\* every other key of the list; the archetypes created on the way respect
\* the exclusivity too.
ExclusiveRelationReplaced ==
    archetypes # Panic =>
        /\ \A id \in Live : ExclusiveOk(archetypes.inner[id].components)
        /\ \A list \in ComponentLists \ NiceLists :
               LET r == find_create(archetypes, list)
               IN  /\ r # Panic
                   /\ r.a.inner[r.cursor].components = Range(list) \ Superseded(list)
                   /\ \A id \in DOMAIN r.a.inner : ExclusiveOk(r.a.inner[id].components)

\* an archetype {a, R(id1)} has an edge R(id2) to an archetype {a, R(id2)}
ExclusiveReplacedEdge ==
    /\ archetypes # Panic
    /\ \E p \in Live : \E c \in Live :
           LET X == ComponentKeyNew("relation", "id1")
               Y == ComponentKeyNew("relation", "id2")
               A == ComponentKeyNew("a", "none")
           IN  /\ archetypes.inner[p].components = {A, X}
               /\ Y \in DOMAIN archetypes.inner[p].outgoing
               /\ archetypes.inner[p].outgoing[Y] = c
               /\ archetypes.inner[c].components = {A, Y}

EdgesSymmetric ==
    archetypes # Panic =>
        \A a \in Live :
            /\ \A k \in DOMAIN archetypes.inner[a].outgoing :
                   LET b == archetypes.inner[a].outgoing[k]
                   IN  /\ b \in Live
                       /\ k \in DOMAIN archetypes.inner[b].incoming
                       /\ archetypes.inner[b].incoming[k] = a
            /\ \A k \in DOMAIN archetypes.inner[a].incoming :
                   LET p == archetypes.inner[a].incoming[k]
                   IN  /\ p \in Live
                       /\ k \in DOMAIN archetypes.inner[p].outgoing
                       /\ archetypes.inner[p].outgoing[k] = a

\* prune_arch has removed an archetype and an edge of the tree is left
PrunedBesideEdge ==
    /\ archetypes # Panic
    /\ \E dead \in 3 .. (archetypes.next - 1) : dead \notin Live
    /\ \E a \in Live : DOMAIN archetypes.inner[a].incoming # {}

\* C12, as claimed: a.outgoing[k] = b implies that b holds a's keys plus k,
\* and a.incoming[k] = p implies that p holds a's keys minus k.
EdgesAddOneKey ==
    archetypes # Panic =>
        \A a \in Live :
            /\ \A k \in DOMAIN archetypes.inner[a].outgoing :
                   LET b == archetypes.inner[a].outgoing[k]
                   IN  /\ b \in Live
                       /\ archetypes.inner[b].components
                              = archetypes.inner[a].components \cup {k}
            /\ \A k \in DOMAIN archetypes.inner[a].incoming :
                   LET p == archetypes.inner[a].incoming[k]
                   IN  /\ p \in Live
                       /\ archetypes.inner[p].components
                              = archetypes.inner[a].components \ {k}

\* the keys of ks plus k, without the other instances of k's relation when
\* k is an instance of an exclusive relation
PlusKey(ks, k) ==
    IF is_relation(k) /\ has_exclusive(k)
    THEN {v \in ks : v.id # k.id} \cup {k}
    ELSE ks \cup {k}

\* C12, amended: a.outgoing[k] = b implies that b is live and holds a's
\* keys plus k, less the other instances of k's relation when k is an
\* exclusive relation; a.incoming[k] = p with p still live implies that a
\* holds p's keys plus k, less those instances likewise.
EdgesFollowExclusivePolicy ==
    archetypes # Panic =>
        \A a \in Live :
            /\ \A k \in DOMAIN archetypes.inner[a].outgoing :
                   LET b == archetypes.inner[a].outgoing[k]
                   IN  /\ b \in Live
                       /\ archetypes.inner[b].components
                              = PlusKey(archetypes.inner[a].components, k)
            /\ \A k \in DOMAIN archetypes.inner[a].incoming :
                   LET p == archetypes.inner[a].incoming[k]
                   IN  p \in Live =>
                           archetypes.inner[a].components
                               = PlusKey(archetypes.inner[p].components, k)

\* the edge R(id2) of {a, R(id1)} leads to {a, R(id2)}, and the parent {a}
\* of the former has been despawned
ExclusiveEdgeUnderHole ==
    /\ archetypes # Panic
    /\ \E p \in Live : \E c \in Live :
           LET X == ComponentKeyNew("relation", "id1")
               Y == ComponentKeyNew("relation", "id2")
               A == ComponentKeyNew("a", "none")
           IN  /\ archetypes.inner[p].components = {A, X}
               /\ Y \in DOMAIN archetypes.inner[p].outgoing
               /\ archetypes.inner[p].outgoing[Y] = c
               /\ archetypes.inner[c].components = {A, Y}
               /\ X \in DOMAIN archetypes.inner[p].incoming
               /\ archetypes.inner[p].incoming[X] \notin Live

\* prune_arch acts on id: it is neither root nor reserved, it is empty and
\* it has no outgoing edge
Prunable(a, id) ==
    /\ id \in DOMAIN a.inner
    /\ id # a.root
    /\ id # a.reserved
    /\ a.inner[id].entities = 0
    /\ DOMAIN a.inner[id].outgoing = {}

\* the archetype id and its ancestors, for as long as each is empty and is
\* left without outgoing edges once its pruned child is unlinked
RECURSIVE PrunedChain(_, _, _)
PrunedChain(a, id, gone) ==
    LET arch == a.inner[id]
        left == {k \in DOMAIN arch.outgoing : arch.outgoing[k] \notin gone}
    IN  IF id # a.root /\ id # a.reserved /\ arch.entities = 0 /\ left = {}
        THEN LET parents == {arch.incoming[k] : k \in DOMAIN arch.incoming}
             IN  IF parents = {} THEN gone \cup {id}
                 ELSE LET p == CHOOSE q \in parents : TRUE
                      IN  IF p \in DOMAIN a.inner
                          THEN PrunedChain(a, p, gone \cup {id})
                          ELSE gone \cup {id}
        ELSE gone

\* C13: prune_arch(id) on an empty archetype without outgoing edges, other
\* than root and reserved, returns true, removes it from the store and the
\* index, removes the link its parent holds to it and does the same to each
\* ancestor for as long as that ancestor is empty and left without outgoing
\* edges; root and reserved stay.
PruneRemovesChain ==
    archetypes # Panic =>
        \A id \in Live :
            Prunable(archetypes, id) =>
                LET r == prune_arch(archetypes, id)
                    gone == PrunedChain(archetypes, id, {})
                IN  /\ r # Panic
                    /\ r.ret
                    /\ DOMAIN r.a.inner = Live \ gone
                    /\ {archetypes.root, archetypes.reserved} \subseteq DOMAIN r.a.inner
                    /\ \A k \in DOMAIN r.a.index : DOMAIN r.a.index[k] \cap gone = {}
                    /\ \A b \in DOMAIN r.a.inner :
                           /\ \A k \in DOMAIN r.a.inner[b].outgoing :
                                  r.a.inner[b].outgoing[k] \notin gone
                           /\ r.a.inner[b].components = archetypes.inner[b].components
                           /\ r.a.inner[b].entities = archetypes.inner[b].entities

\* C14: prune_arch(id) returns false and leaves the store, the edges, the
\* index and gen as they are when id is root, reserved, a non-empty
\* archetype or an archetype with an outgoing edge.
PruneKeepsGuarded ==
    archetypes # Panic =>
        \A id \in Live :
            (\/ id = archetypes.root
             \/ id = archetypes.reserved
             \/ archetypes.inner[id].entities > 0
             \/ DOMAIN archetypes.inner[id].outgoing # {})
                => LET r == prune_arch(archetypes, id)
                   IN  /\ r # Panic
                       /\ ~ r.ret
                       /\ r.a = archetypes

\* an empty archetype with an outgoing edge and a non-empty leaf, neither
\* root nor reserved, beside an archetype that was removed
GuardedBesideRemoved ==
    /\ archetypes # Panic
    /\ \E id \in Live \ {root, reserved} :
           /\ archetypes.inner[id].entities = 0
           /\ DOMAIN archetypes.inner[id].outgoing # {}
    /\ \E id \in Live \ {root, reserved} :
           /\ archetypes.inner[id].entities > 0
           /\ DOMAIN archetypes.inner[id].outgoing = {}
    /\ \E dead \in 3 .. (archetypes.next - 1) : dead \notin Live

\* C15: gen is monotonically increasing: every find_create that creates an
\* archetype, every prune_arch that removes one and every despawn, that is
\* every step that changes the set of live archetypes, makes gen strictly
\* greater than it was.
GenStrictlyIncreases ==
    [][(/\ archetypes # Panic
        /\ archetypes' # Panic
        /\ DOMAIN archetypes'.inner # DOMAIN archetypes.inner)
           => U32Lt(archetypes.gen, archetypes'.gen)]_vars

\* a wildcard key of the index: (dummy, object) or (id, dummy)
IsWildcard(k) == k.id = dummy \/ k.object = dummy

\* C16: after any sequence of find_create, prune_arch and despawn the index
\* holds a direct record for archetype a under the key k, k not a wildcard,
\* if and only if a is live and its components contain k.
IndexDirectExact ==
    archetypes # Panic =>
        /\ \A k \in DOMAIN archetypes.index :
               ~ IsWildcard(k) =>
                   \A a \in DOMAIN archetypes.index[k] :
                       /\ a \in Live
                       /\ k \in archetypes.inner[a].components
        /\ \A a \in Live : \A k \in archetypes.inner[a].components :
               /\ k \in DOMAIN archetypes.index
               /\ a \in DOMAIN archetypes.index[k]

\* the archetype {a} was despawned and unregistered; its child, detached,
\* is the only archetype left under the key a
DirectRecordOfChildOnly ==
    /\ archetypes # Panic
    /\ \E d \in Live : \E k \in DOMAIN archetypes.inner[d].incoming :
           LET A == ComponentKeyNew("a", "none")
           IN  /\ archetypes.inner[d].incoming[k] \notin Live
               /\ k # A
               /\ A \in archetypes.inner[d].components
               /\ A \in DOMAIN archetypes.index
               /\ DOMAIN archetypes.index[A] = {d}

\* the relation keys of the components ks that back the wildcard key w
Backing(ks, w) ==
    {c \in ks : /\ is_relation(c)
                /\ \/ (w.id = dummy /\ c.object = w.object)
                   \/ (w.object = dummy /\ c.id = w.id)}

\* the wildcard keys of the relation key k
Wildcards(k) == {ComponentKeyNew(dummy, k.object), ComponentKeyNew(k.id, dummy)}

\* C17: for every live archetype a and relation key (id, obj) of a the
\* index holds a record for a under (dummy, obj) and under (id, dummy);
\* the relation_count of a wildcard record is the number of relation keys
\* of a backing the wildcard, its cell_index is the cell of the first of
\* them in a's component order, and a wildcard record exists only for a
\* live archetype with at least one backing key.
WildcardRecordsCount ==
    archetypes # Panic =>
        /\ \A a \in Live : \A k \in archetypes.inner[a].components :
               is_relation(k) =>
                   \A w \in Wildcards(k) :
                       /\ w \in DOMAIN archetypes.index
                       /\ a \in DOMAIN archetypes.index[w]
        /\ \A w \in DOMAIN archetypes.index :
               IsWildcard(w) =>
                   \A a \in DOMAIN archetypes.index[w] :
                       /\ a \in Live
                       /\ LET ks == archetypes.inner[a].components
                              bs == Backing(ks, w)
                              rec == archetypes.index[w][a]
                          IN  /\ rec.relation_count = Cardinality(bs)
                              /\ rec.relation_count >= 1
                              /\ \E c \in bs :
                                     /\ \A d \in bs : Rank(c) <= Rank(d)
                                     /\ rec.cell_index = CellIndex(ks, c)

\* an archetype with two relations to id1 has a wildcard record of count 2
\* at the cell of the first, after another archetype was unregistered
WildcardBackedTwice ==
    /\ archetypes # Panic
    /\ \E dead \in 3 .. (archetypes.next - 1) : dead \notin Live
    /\ \E a \in Live :
           LET w == ComponentKeyNew(dummy, "id1")
           IN  /\ w \in DOMAIN archetypes.index
               /\ a \in DOMAIN archetypes.index[w]
               /\ archetypes.index[w][a].relation_count = 2
               /\ archetypes.index[w][a].cell_index = 1

\* C18, as claimed: adding a component to an entity and removing it again
\* brings the entity back to the archetype id it started in, for every
\* starting archetype that holds spawned entities.
AddRemoveRestoresId ==
    archetypes # Panic =>
        \A src \in Live \ {archetypes.reserved} :
            \A key \in Keys \ archetypes.inner[src].components :
                LET r == add_then_remove(archetypes, src, key)
                IN  /\ r # Panic
                    /\ r.cursor = src

\* key is an instance of an exclusive relation of which ks holds another
Displaces(ks, key) ==
    /\ is_relation(key)
    /\ has_exclusive(key)
    /\ \E v \in ks : v.id = key.id /\ v # key

\* C18, amended: unless the added key is an instance of an exclusive
\* relation of which the starting archetype holds another instance, adding
\* and then removing it brings the entity to an archetype with the key set
\* it started with; this is the starting archetype itself when that is the
\* archetype find_create returns for its own keys.
AddRemoveRestoresKeys ==
    archetypes # Panic =>
        \A src \in Live :
            \A key \in Keys \ archetypes.inner[src].components :
                ~ Displaces(archetypes.inner[src].components, key) =>
                    LET r == add_then_remove(archetypes, src, key)
                        own == find_create(archetypes,
                                           SortedKeys(archetypes.inner[src].components))
                    IN  /\ r # Panic
                        /\ r.a.inner[r.cursor].components
                               = archetypes.inner[src].components
                        /\ own.cursor = src => r.cursor = src

\* {a, R(id1)} is at the end of its own path, {R(id2)} was reached by
\* replacing R(id1) and is not: find_create of its keys would build a twin
OwnPathAndReplaced ==
    /\ archetypes # Panic
    /\ \E s \in Live : \E t \in Live :
           LET X == ComponentKeyNew("relation", "id1")
               Y == ComponentKeyNew("relation", "id2")
           IN  /\ X \in archetypes.inner[s].components
               /\ find_create(archetypes,
                              SortedKeys(archetypes.inner[s].components)).cursor = s
               /\ archetypes.inner[t].components = {Y}
               /\ find_create(archetypes, << Y >>).cursor # t

(***************************************************************************)
(* Chunked iteration                                                       *)
(***************************************************************************)
SliceSlots(sl) == sl.start .. (sl.end - 1)

ChunkSlots(chunks) == UNION {SliceSlots(chunks[i]) : i \in 1 .. Len(chunks)}

\* the slots whose items are due so far: every chunk before the current one
\* whole, the current one up to the cursor of its Batch
DueSlots ==
    IF iter.current = None
    THEN ChunkSlots(iter.chunks)
    ELSE ChunkSlots(SubSeq(iter.chunks, 1, Len(iter.chunks) - 1))
            \cup (iter.chunks[Len(iter.chunks)].start .. (Unwrap(iter.current).pos - 1))

\* C19: within one archetype the chunks yielded are non-empty sub-slices of
\* [0, len), each starting at or after the end of the one before (so they are
\* pairwise disjoint), and the batches yield exactly one item per slot of
\* their chunk in ascending order, next_with_id pairing the item with
\* entities[slot].
ChunksAscendDisjoint ==
    /\ \A i \in 1 .. Len(iter.chunks) :
          /\ iter.chunks[i].start < iter.chunks[i].end
          /\ 0 <= iter.chunks[i].start
          /\ iter.chunks[i].end <= iter.arch.len
    /\ \A i \in 1 .. (Len(iter.chunks) - 1) :
          iter.chunks[i + 1].start >= iter.chunks[i].end
    /\ \A i \in 1 .. Len(iter.chunks) : \A j \in 1 .. Len(iter.chunks) :
          i # j => SliceSlots(iter.chunks[i]) \cap SliceSlots(iter.chunks[j]) = {}
    /\ \A i \in 1 .. (Len(iter.items) - 1) :
          iter.items[i].slot < iter.items[i + 1].slot
    /\ {iter.items[i].slot : i \in 1 .. Len(iter.items)} = DueSlots
    /\ \A i \in 1 .. Len(iter.items) :
          iter.items[i].id # None
              => Unwrap(iter.items[i].id) = iter.arch.entities[iter.items[i].slot + 1]

\* two chunks with a gap between them drained to the end, one of them of
\* two slots, with items of both next and next_with_id
TwoChunksDrained ==
    /\ iter.done
    /\ Len(iter.chunks) = 2
    /\ iter.chunks[1].end < iter.chunks[2].start
    /\ \E i \in 1 .. 2 : iter.chunks[i].end - iter.chunks[i].start = 2
    /\ Len(iter.items) = 3
    /\ \E i \in 1 .. 3 : iter.items[i].id = None
    /\ \E i \in 1 .. 3 : iter.items[i].id # None

RECURSIVE drain(_, _)

\* the slots that ArchetypeChunks yields for fetch from slots on
drain(fetch, slots) ==
    LET r == next_chunk(fetch, slots)
    IN IF r = Panic THEN {}
       ELSE IF r.ret = None THEN {}
       ELSE SliceSlots(Unwrap(r.ret)) \cup drain(fetch, r.slots)

\* C20: iterating And(L, R) over an archetype yields exactly the slots that
\* L alone and R alone would both yield, whatever the layout of their
\* matching ranges.
AndYieldsIntersection ==
    (iter.done /\ iter.fetch.op = "and")
        => ChunkSlots(iter.chunks)
              = drain(iter.fetch.l, arch_slots(iter.arch))
                    \cap drain(iter.fetch.r, arch_slots(iter.arch))

\* the slots a fetch matches: what iterating it alone over the archetype
\* yields; a branch that was not prepared matches nothing
Matched(o) == IF o = None THEN {} ELSE drain(Unwrap(o), arch_slots(iter.arch))

\* C21: iterating Or over an archetype yields exactly the slots that at
\* least one of its branches matches, for any branch results that are a
\* sub-slice of slots or an empty slice.
OrYieldsAnyBranch ==
    (iter.done /\ iter.fetch.op = "or")
        => /\ ~iter.panic
           /\ ChunkSlots(iter.chunks)
                 = UNION {Matched(iter.fetch.bs[i]) : i \in 1 .. Len(iter.fetch.bs)}

\* C22: iterating Not(A) over an archetype yields exactly the slots that A
\* does not match, and all the slots when A could not be prepared.
NotYieldsComplement ==
    (iter.done /\ iter.fetch.op = "not")
        => /\ ~iter.panic
           /\ ChunkSlots(iter.chunks) = Rows(iter.arch.len) \ Matched(iter.fetch.f)

\* C23: iterating Union over a tuple of filters yields, as ascending
\* pairwise-disjoint chunks, exactly the slots matched by at least one of the
\* filters, a filter that matches nothing contributing nothing.
UnionYieldsAnyFilter ==
    iter.fetch.op = "union"
        => /\ \A i \in 1 .. (Len(iter.chunks) - 1) :
                 iter.chunks[i + 1].start >= iter.chunks[i].end
           /\ iter.done
                 => /\ ~iter.panic
                    /\ ChunkSlots(iter.chunks)
                          = UNION {Matched(iter.fetch.t.bs[i]) : i \in 1 .. Len(iter.fetch.t.bs)}

(***************************************************************************)
(* Borrow guards                                                           *)
(***************************************************************************)
\* C24: a cell has any number of read borrows or one write borrow, never
\* both; try_get while a write borrow is held and try_get_mut while any
\* borrow is held return a borrow error and leave the borrows held as they
\* are; Display of an entity whose name is mutably borrowed writes the id
\* only and leaves the borrows as they are.
BorrowsReadersXorWriter ==
    /\ \A k \in CellKeys :
          LET b == cell.cells[k]
          IN /\ ~(b.writer /\ b.readers > 0)
             /\ (k \in cell.has /\ b.writer)
                   => /\ try_get(cell, k).ret = Err("BorrowError")
                      /\ try_get(cell, k).cell = cell
             /\ (k \in cell.has /\ (b.writer \/ b.readers > 0))
                   => /\ try_get_mut(cell, k).ret = Err("BorrowMutError")
                      /\ try_get_mut(cell, k).cell = cell
    /\ cell.cells["name"].writer
          => /\ fmt(cell).out = "id"
             /\ fmt(cell).cell = cell
    /\ ("name" \in cell.has /\ ~cell.cells["name"].writer)
          => /\ fmt(cell).out = "name id"
             /\ fmt(cell).cell = cell

\* the name is mutably borrowed and was displayed as the id only, while
\* another cell has two readers
NameWrittenOthersRead ==
    /\ "name" \in cell.has
    /\ cell.cells["name"].writer
    /\ cell.shown = "id"
    /\ cell.cells["health"].readers = 2
    /\ cell.cells["pos"].readers = 0
    /\ ~cell.cells["pos"].writer

(***************************************************************************)
(* Component values of entities                                            *)
(***************************************************************************)
Alive == {id \in Ents : is_alive(world, id)}

ComponentsOf(w, id) == location(w, id).arch

\* a value that has not been handed to the world yet
NewValue == world.handed + 1

\* C25: setting a component on an entity returns the value it replaces, or
\* None when the entity did not have the component, and a following get of
\* the component returns the value just set, whether or not the entity was
\* moved to another archetype.
SetReturnsReplacedGetReturnsSet ==
    \A id \in Alive : \A component \in Keys :
        LET r == entity_set(world, id, component, NewValue)
        IN /\ r.ret = IF has(world, id, component)
                      THEN Some(get(world, id, component).v)
                      ELSE None
           /\ get(r.world, id, component) = Ok(NewValue)
           /\ r.loc = location(r.world, id)

\* entity 1 had its value of a replaced and was then moved by setting a
\* relation
ReplacedThenMoved ==
    /\ is_alive(world, 1)
    /\ ComponentsOf(world, 1) = {ComponentKeyNew("a", "none"), ComponentKeyNew("relation", "id1")}
    /\ get(world, 1, ComponentKeyNew("a", "none")) = Ok(2)
    /\ get(world, 1, ComponentKeyNew("relation", "id1")) = Ok(3)
    /\ world.drops[1] = 1

\* from world w0 to w1 every live entity keeps its components and their
\* values, but for the component of id that was set or removed and for the
\* components gone from id
Untouched(w0, w1, id, component, gone) ==
    \A id2 \in Alive :
        /\ is_alive(w1, id2)
        /\ ComponentsOf(w1, id2) \ (IF id2 = id THEN {component} ELSE {})
              = (ComponentsOf(w0, id2) \ (IF id2 = id THEN {component} \cup gone ELSE {}))
        /\ \A k \in ComponentsOf(w1, id2) :
              (id2 # id \/ k # component) => get(w1, id2, k) = get(w0, id2, k)

\* C26, as claimed: setting or removing one component of an entity leaves
\* all its other components and their values, and the components and values
\* of every other entity, unchanged.
SetRemoveKeepEverythingElse ==
    \A id \in Alive : \A component \in Keys :
        /\ Untouched(world, entity_set(world, id, component, NewValue).world,
                     id, component, {})
        /\ Untouched(world, entity_remove(world, id, component).world,
                     id, component, {})

\* the other instances of an exclusive relation that setting component
\* displaces from the components ks
Displaced(ks, component) ==
    IF is_relation(component) /\ has_exclusive(component)
    THEN {v \in ks : v.id = component.id /\ v # component}
    ELSE {}

\* C26, amended: the same, except that setting an instance of an exclusive
\* relation removes the other instance of that relation from the entity.
SetRemoveKeepAllButDisplaced ==
    \A id \in Alive : \A component \in Keys :
        /\ Untouched(world, entity_set(world, id, component, NewValue).world,
                     id, component, Displaced(ComponentsOf(world, id), component))
        /\ Untouched(world, entity_remove(world, id, component).world,
                     id, component, {})

\* entity 1 left the archetype {a} from slot 0 and entity 2 was swapped
\* into the slot, both keeping their values of a
SwappedIntoVacatedSlot ==
    /\ is_alive(world, 1)
    /\ is_alive(world, 2)
    /\ get(world, 1, ComponentKeyNew("a", "none")) = Ok(1)
    /\ get(world, 2, ComponentKeyNew("a", "none")) = Ok(2)
    /\ get(world, 1, ComponentKeyNew("relation", "id1")) = Ok(3)
    /\ location(world, 2) = EntityLocation({ComponentKeyNew("a", "none")}, 0)

\* C27: removing or reading a component the entity does not have returns
\* MissingComponent naming the entity and the component and changes nothing;
\* after a successful remove, has() is false and get() returns
\* MissingComponent.
MissingComponentReported ==
    \A id \in Alive : \A component \in Keys :
        LET r == entity_remove(world, id, component)
        IN /\ ~has(world, id, component)
                 => /\ r.ret = Err(MissingComponent(id, component))
                    /\ r.world = world
                    /\ get(world, id, component) = Err(MissingComponent(id, component))
           /\ has(world, id, component)
                 => /\ r.ret = Ok(get(world, id, component).v)
                    /\ ~has(r.world, id, component)
                    /\ get(r.world, id, component) = Err(MissingComponent(id, component))

\* the only component of entity 1 was removed, beside entity 2 that has it
RemovedBesideKept ==
    /\ is_alive(world, 1)
    /\ is_alive(world, 2)
    /\ ComponentsOf(world, 1) = {}
    /\ world.drops[1] = 1
    /\ get(world, 2, ComponentKeyNew("a", "none")) = Ok(2)
    /\ world.handed = 2

\* the number of places where value h is stored
Stored(h) ==
    Cardinality({<<id, k>> \in Alive \X Keys :
                    k \in ComponentsOf(world, id) /\ get(world, id, k) = Ok(h)})

\* the rows of the archetypes are the rows of the live entities
RowsMatchLocations ==
    /\ \A id \in Alive : row_at(world, location(world, id)).id = id
    /\ \A S \in SUBSET Keys : \A i \in 1 .. Len(world.archs[S]) :
          /\ world.archs[S][i].id \in Alive
          /\ location(world, world.archs[S][i].id) = EntityLocation(S, i - 1)
          /\ DOMAIN world.archs[S][i].vals = S

Attached(a, id) == Range(a.inner[id].handlers)

Listed(a) == Range(a.subscribers)

\* every subscriber of the global list is attached to every live archetype
\* it matches
ListedAreAttached ==
    archetypes # Panic =>
        \A s \in Listed(archetypes) : \A id \in DOMAIN archetypes.inner :
            matches_arch(s, archetypes.inner[id]) => s \in Attached(archetypes, id)

\* a step attaches to each archetype it creates the listed subscribers that
\* match it and no other, and a step that adds a subscriber drops from the
\* list the subscribers that were disconnected
CreatedGetListedOnly ==
    (archetypes # Panic /\ archetypes' # Panic) =>
        /\ \A id \in DOMAIN archetypes'.inner \ DOMAIN archetypes.inner :
              Attached(archetypes', id)
                  = {s \in Listed(archetypes) : matches_arch(s, archetypes'.inner[id])}
        /\ subscription'.added # subscription.added =>
              /\ \A v \in Listed(archetypes) :
                    ~is_connected(v, subscription.connected) => v \notin Listed(archetypes')
              /\ \A v \in Listed(archetypes) :
                    is_connected(v, subscription.connected) => v \in Listed(archetypes')

\* C29: after add_subscriber(s), s is attached to every live archetype it
\* matches and to every archetype find_create creates later that it
\* matches; the subscribers that are disconnected when add_subscriber runs
\* leave the global list and are not attached to archetypes created
\* afterwards.
SubscribersFollowArchetypes == []ListedAreAttached /\ [][CreatedGetListedOnly]_vars

\* s1 was attached to {a}, was disconnected and left the list when s2 was
\* added, and the archetype {a, relation(id1)} created afterwards carries s2
\* but not s1, which matches it
DroppedSubscriberNotAttached ==
    /\ archetypes # Panic
    /\ LET s1 == Subscriber("s1", ComponentKeyNew("a", "none"))
           s2 == Subscriber("s2", ComponentKeyNew("relation", "id1"))
       IN /\ Listed(archetypes) = {s2}
          /\ \E o \in DOMAIN archetypes.inner : \E n \in DOMAIN archetypes.inner :
                /\ archetypes.inner[o].components = {s1.key}
                /\ Attached(archetypes, o) = {s1}
                /\ archetypes.inner[n].components = {s1.key, s2.key}
                /\ Attached(archetypes, n) = {s2}

(***************************************************************************)
(* The debug ordering check at its call sites.                             *)
(***************************************************************************)
\* The check passes after each of the set calls that migrate_to and swap_out
\* make with the changes cs, rewritten to slot.
SetAllOrdered(inner, cs, slot) ==
    \A k \in 0 .. Len(cs) : assert_ordered(set_all(inner, SubSeq(cs, 1, k), slot))

\* The check passes on entry to and on exit from every call that can be made
\* in this state.
OrderedIn(inner, oth, inputs) ==
    /\ assert_ordered(inner)
    /\ assert_ordered(oth)
    /\ \A c \in inputs : assert_ordered(set(inner, c))
    /\ \A slot \in Slots : assert_ordered(remove(inner, slot).inner)
    /\ \A src, dst \in Slots :
          LET a == remove(inner, src)
              b == remove(a.inner, dst)
          IN  /\ assert_ordered(b.inner)
              /\ SetAllOrdered(b.inner, b.removed, src)
              /\ SetAllOrdered(oth, a.removed, dst)

\* C30: the debug ordering check (per kind, the slices are non-descending in
\* lexicographic (start, end) order) passes at every call site, before and
\* after set and remove and inside migrate_to and swap_out, in every state
\* reached by set, remove, migrate_to and swap_out.
OrderingCheckNeverFails == OrderedIn(changes, other, AllChanges)

\* every slot a record of inner covers is covered in new by a record of the
\* same kind and of a tick at least as great: the greatest tick per slot and
\* kind did not decrease
CoveredNotOlder(inner, new) ==
    \A i \in 1 .. Len(inner) :
        \A s \in inner[i].slice.start .. (inner[i].slice.end - 1) :
            \E j \in 1 .. Len(new) :
                /\ new[j].kind = inner[i].kind
                /\ new[j].tick >= inner[i].tick
                /\ contains(new[j].slice, s)

\* the records set(c) must not touch: another kind, or a tick not older than c's
Lasting(inner, c) ==
    LET Test(v) == v.kind # c.kind \/ v.tick >= c.tick
    IN SelectSeq(inner, Test)

\* w is v, or v of c's tick and kind extended to the right
SameOrExtended(v, w, c) ==
    \/ w = v
    \/ /\ v.kind = c.kind /\ v.tick = c.tick
       /\ w.kind = v.kind /\ w.tick = v.tick
       /\ w.slice.start = v.slice.start
       /\ w.slice.end > v.slice.end

DropAt(q, j) == SubSeq(q, 1, j - 1) \o SubSeq(q, j + 1, Len(q))

\* q is p, record by record the same or extended, possibly with c inserted
LastingKept(p, q, c) ==
    LET Same(a, b) == Len(a) = Len(b) /\ \A i \in 1 .. Len(a) : SameOrExtended(a[i], b[i], c)
    IN  \/ Same(p, q)
        \/ \E j \in 1 .. Len(q) : q[j] = c /\ Same(p, DropAt(q, j))

SetKeeps(inner, c) ==
    LET new == set(inner, c)
    IN  /\ CoveredNotOlder(inner, new)
        /\ LastingKept(Lasting(inner, c), Lasting(new, c), c)

(***************************************************************************)
(* C31. set never loses change information: for every slot and kind the    *)
(* greatest tick among the stored records of that kind covering the slot   *)
(* does not decrease across set(c), and the records of another kind or of  *)
(* a tick not older than c.tick stay in the list, in their order, each     *)
(* unchanged or (same tick and kind as c) extended to the right.           *)
(***************************************************************************)
SetNeverLosesChanges == \A c \in AllChanges : SetKeeps(changes, c)

\* set(c) extended a record of c's tick over c and trimmed an older record
\* that c overlapped
ExtendedNewerTrimmedOlder ==
    /\ last.op = "set"
    /\ last.n = 2
    /\ Len(changes) = 2
    /\ changes[1].tick = last.change.tick
    /\ changes[1].slice.start < last.change.slice.start
    /\ changes[1].slice.end = last.change.slice.end
    /\ changes[2].tick < last.change.tick
    /\ changes[2].slice.start = last.change.slice.end

\* the leaf fetches that a set_visited call on f has to reach: those below
\* And, below the prepared branches of Or and below Union
RECURSIVE Branches(_, _)
Branches(f, path) ==
    CASE f.op = "leaf" -> {path}
      [] f.op = "and" -> Branches(f.l, Append(path, 1)) \cup Branches(f.r, Append(path, 2))
      [] f.op = "or" -> UNION {Branches(Unwrap(f.bs[i]), Append(path, i)) :
                                  i \in {j \in 1 .. Len(f.bs) : f.bs[j] # None}}
      [] f.op = "union" -> Branches(f.t, Append(path, 1))
      [] f.op = "not" -> {}

MarkCount(marked, path, slots) ==
    Cardinality({i \in 1 .. Len(marked) : marked[i] = [path |-> path, slots |-> slots]})

(***************************************************************************)
(* C32. During chunked iteration set_visited is called exactly once for    *)
(* every yielded chunk and with nothing else, the chunk of the batch being *)
(* drained and the chunk of every fetched item have been marked before,    *)
(* and each call reaches every leaf below And and Or exactly once, the Or  *)
(* branches that did not produce the chunk included.                       *)
(***************************************************************************)
SetVisitedOncePerChunk ==
    /\ iter.visited = iter.chunks
    /\ iter.current # None =>
           /\ Len(iter.visited) > 0
           /\ iter.visited[Len(iter.visited)].start <= Unwrap(iter.current).pos
           /\ iter.visited[Len(iter.visited)].end = Unwrap(iter.current).end
    /\ \A k \in 1 .. Len(iter.items) :
           \E j \in 1 .. Len(iter.visited) : contains(iter.visited[j], iter.items[k].slot)
    /\ \A j \in 1 .. Len(iter.chunks) : \A p \in Branches(iter.fetch, <<>>) :
           MarkCount(iter.marked, p, iter.chunks[j]) = 1
    /\ \A i \in 1 .. Len(iter.marked) :
           /\ \E j \in 1 .. Len(iter.chunks) : iter.marked[i].slots = iter.chunks[j]
           /\ iter.marked[i].path \in Branches(iter.fetch, <<>>)

\* an item was fetched from a chunk that one branch of an Or produced, and
\* the other branch, which matches no slot of the chunk, was marked with it
OrBranchMarkedWithoutMatch ==
    /\ iter.fetch.op = "or"
    /\ \A i \in 1 .. 2 : iter.fetch.bs[i] # None
    /\ Len(iter.items) > 0
    /\ \E i \in 1 .. 2 :
           /\ \A s \in Unwrap(iter.fetch.bs[i]).m : ~ contains(iter.chunks[1], s)
           /\ MarkCount(iter.marked, <<i>>, iter.chunks[1]) = 1

\* the rows a BatchedIter has not gone past: the slots left in the current
\* archetype and the rows of the archetypes not yet begun
RECURSIVE SumLen(_)
SumLen(prepared) ==
    IF prepared = <<>> THEN 0 ELSE Head(prepared).arch.len + SumLen(Tail(prepared))

Remaining(bi) ==
    SumLen(bi.archetypes)
        + (IF bi.current = None THEN 0
           ELSE Unwrap(bi.current).slots.end - Unwrap(bi.current).slots.start)

\* a call of next returns, and what it returns is None or a non-empty chunk
\* that strictly shrinks the rows left
CallShrinks ==
    (batched.started /\ batched' # batched) =>
        /\ ~ batched'.panic
        /\ Len(batched'.returned) = Len(batched.returned) + 1
        /\ LET ret == batched'.returned[Len(batched'.returned)]
           IN ret # None =>
                  /\ ~ is_empty(Unwrap(ret))
                  /\ Remaining(batched'.it) < Remaining(batched.it)

(***************************************************************************)
(* C33. Query iteration terminates: over a finite list of prepared         *)
(* archetypes of finite length every call of BatchedIter::next returns,    *)
(* each chunk it returns is non-empty and strictly shrinks the rows left,  *)
(* so that None is returned after at most as many calls as there are rows, *)
(* plus one.  The code does not keep this for every filter: a call panics  *)
(* when Not unwraps a difference that is not one slice.                    *)
(***************************************************************************)
NextReturnsNoneAfterFinitelyManyCalls ==
    /\ [](Len(batched.returned) + Remaining(batched.it)
              <= MaxPrepared * MaxBatchedRows + 1)
    /\ [][CallShrinks]_vars

\* what the fetch returns for the slots that remain is inside them, or empty
FilterResultInside ==
    LET cur == filter_slots(iter.fetch, iter.slots)
    IN  /\ cur # Panic
        /\ is_empty(cur) \/ split_with(iter.slots, cur) # None

(***************************************************************************)
(* C34. For any composition of And, Or and Not over leaf filters that      *)
(* return a sub-slice of their argument or an empty slice, chunked         *)
(* iteration never aborts: the difference taken inside Not is defined and  *)
(* the composed result is a sub-slice of the slots passed in, so the       *)
(* subset check of next_chunk holds.  The code does not keep this: Not     *)
(* unwraps a difference that is None when the inner range lies strictly    *)
(* inside the slots.                                                       *)
(***************************************************************************)
IterationNeverAborts ==
    /\ ~ iter.panic
    /\ (~ iter.done /\ ~ is_empty(iter.slots)) => FilterResultInside

\* the archetype the edges lead to from the root, key by key; None when an
\* edge of the path does not exist
FollowEdges(a, list) ==
    LET F[n \in 0 .. Len(list)] ==
            IF n = 0 THEN Some(a.root)
            ELSE IF F[n - 1] = None THEN None
            ELSE LET cur == Unwrap(F[n - 1])
                 IN IF cur \in DOMAIN a.inner /\ list[n] \in DOMAIN a.inner[cur].outgoing
                    THEN Some(a.inner[cur].outgoing[list[n]])
                    ELSE None
    IN F[Len(list)]

\* C35: archetypes are created only on first reach.  In every state reached
\* by find_create, prune_arch and despawn, a find_create whose every edge
\* exists returns the archetype the edges lead to and leaves the Archetypes
\* (archetypes, edges, gen, index) as they are; and the find_create that
\* follows the one that created an archetype returns the same id and
\* changes nothing.
FindCreateOnlyOnFirstReach ==
    archetypes # Panic =>
        \A list \in ComponentLists :
            LET r == find_create(archetypes, list)
                to == FollowEdges(archetypes, list)
            IN  /\ (to # None /\ r # Panic) =>
                       (r.cursor = Unwrap(to) /\ r.a = archetypes)
                /\ (to = None /\ r # Panic) =>
                       LET again == find_create(r.a, list)
                       IN  /\ r.a.next > archetypes.next
                           /\ again # Panic
                           /\ again.cursor = r.cursor
                           /\ again.a = r.a

\* a find_create along existing edges, in a graph in which a prune has
\* removed archetypes since (gen counts more than the archetypes created)
ReachedAgainAfterPrune ==
    /\ archetypes # Panic
    /\ Cardinality(DOMAIN archetypes.inner) < archetypes.next - 1
    /\ \E list \in ComponentLists :
           /\ Len(list) >= 2
           /\ FollowEdges(archetypes, list) # None
           /\ find_create(archetypes, list) # Panic
           /\ find_create(archetypes, list).a = archetypes

\* C36: in every state reached by find_create and prune_arch, no two
\* distinct live archetypes other than the root and the reserved archetype
\* have the same set of component keys.
OneArchetypePerKeySet ==
    archetypes # Panic =>
        \A x, y \in Live \ {root, reserved} :
            x # y => archetypes.inner[x].components # archetypes.inner[y].components

\* the index after register(id, arch) and then unregister(id, arch) of an
\* archetype of components ks, None when an unwrap of unregister fails
RegisterUnregister(index, id, ks) ==
    unregister(register(index, id, ArchetypeNew(ks)), id, ArchetypeNew(ks))

\* no record of archetype id under any key, and no key without records
NoTraceOf(index, id) ==
    \A k \in DOMAIN index : id \notin DOMAIN index[k] /\ DOMAIN index[k] # {}

\* C37: from every index reached by find_create, prune_arch and despawn,
\* register(id, arch) followed by unregister(id, arch) of a new archetype
\* gives back the index as it was before the register: no record for id
\* under any direct or wildcard key and no key whose record set is empty.
UnregisterUndoesRegister ==
    archetypes # Panic =>
        \A ks \in SUBSET Keys :
            LET r == RegisterUnregister(archetypes.index, archetypes.next, ks)
            IN  /\ r # None
                /\ Unwrap(r) = archetypes.index
                /\ NoTraceOf(Unwrap(r), archetypes.next)

\* the part of C37 that holds: unregister finds every record it unwraps and
\* leaves no record of the archetype behind
UnregisterRemovesEveryRecord ==
    archetypes # Panic =>
        \A ks \in SUBSET Keys :
            LET r == RegisterUnregister(archetypes.index, archetypes.next, ks)
            IN  /\ r # None
                /\ \A k \in DOMAIN Unwrap(r) : archetypes.next \notin DOMAIN Unwrap(r)[k]

\* C38: the location an EntityRefMut uses (the cell loc, or the location of
\* the world when the cell is empty) is the current location of its entity,
\* after any sequence of get, set, remove, retain, entry_ref and calls made
\* on world_mut().
RefLocationIsCurrent ==
    RefUsable => ref_loc(entity_ref, world) = location(world, entity_ref.id)

\* the part of C38 that holds: a call of the reference that assigns the cell
\* leaves in it the current location of the entity
RefCallsAssignCurrentLocation ==
    [][(entity_ref'.open /\ entity_ref' # entity_ref
            /\ is_alive(world', entity_ref'.id))
       => ref_loc(entity_ref', world') = location(world', entity_ref'.id)]_vars

\* the row of the entity of the reference was swapped into another slot of
\* its archetype by a despawn made on world_mut(), and the cell still holds
\* the old slot
SwappedUnderReference ==
    /\ RefUsable
    /\ entity_ref.loc # None
    /\ ref_loc(entity_ref, world).arch = location(world, entity_ref.id).arch
    /\ ref_loc(entity_ref, world).slot # location(world, entity_ref.id).slot

\* every incoming edge of a live archetype leads to a live archetype
IncomingResolve(a) ==
    \A id \in DOMAIN a.inner :
        \A k \in DOMAIN a.inner[id].incoming :
            a.inner[id].incoming[k] \in DOMAIN a.inner

\* C39: after any sequence of find_create, prune_arch and despawn made with
\* ids of live archetypes, no call has aborted, prune_arch(id) and
\* despawn(id) of every live archetype return, and every incoming edge of a
\* live archetype leads to an archetype that get_mut resolves.
PruneAndDespawnNeverAbort ==
    /\ archetypes # Panic
    /\ \A id \in Live : prune_arch(archetypes, id) # Panic
    /\ \A id \in Live \ {root, reserved} : despawn(archetypes, id) # Panic
    /\ IncomingResolve(archetypes)

\* the part of C39 that holds: prune_arch and despawn abort only where an
\* incoming edge does not resolve
OnlyDanglingEdgesAbort ==
    (archetypes # Panic /\ IncomingResolve(archetypes)) =>
        /\ \A id \in Live \ {root, reserved} : despawn(archetypes, id) # Panic
        /\ \A id \in Live : prune_arch(archetypes, id) # Panic
====
